---- MODULE Spec2Model ----
(***************************************************************************)
(* Smart Invoice Splitting API: the span reconcilers                       *)
(* (AzureOpenAIService.validateSplits, PDFSplitterService.validateSplits), *)
(* the boundary-detection reply parser, and the batch lifecycle driven by  *)
(* ProcessingController and persisted through DocumentBatch.               *)
(*                                                                         *)
(* Numbers with a fractional part (confidences) are kept in tenths:        *)
(* 0.3 is 3, 0.5 is 5.                                                     *)
(***************************************************************************)
EXTENDS Integers, Sequences, FiniteSets, TLC

\* ------------------------------------------------------------------ bounds
\* Largest page count of a document handed to a reconciler.
MaxPages == 5
\* Longest candidate list handed to a reconciler.
MaxCands == 2
\* Requests (with the pipelines they kick off) in flight on the batch at once.
MaxReqs == 2
\* Page count of the batch's uploaded document.
DocPages == 2

\* Rows of distinct batches in the document_batches table.
MaxBatches == 2
\* Jobs working on the table at once.
MaxJobs == 2
\* Store operations one job performs.
MaxOps == 3
\* Characters in a drawn numeric string.
MaxChars == 4

\* ------------------------------------------------------- program constants
\* confidence of the fallback span (0.3), in tenths
FallbackConfidence == 3
\* confidence given to a parsed candidate without one (0.5), in tenths
DefaultConfidence == 5
\* confidence of PDFSplitterService's all-pages span (0.5), in tenths
SplitterFallbackConfidence == 5

VARIABLES
  \* --- reconciler harness: one call of a reconciler on drawn inputs
  given,        \* the candidate list as the caller built it
  splits,       \* the array object passed in (sorted in place by the call)
  totalPages,   \* N
  validated,    \* the array the call returned
  rpc,          \* "input" | "openai" | "splitter"
  \* --- one batch and the requests and pipelines working on it
  row,                  \* the batch's row in document_batches
  servicesInitialized,  \* ProcessingController.servicesInitialized
  splitOnly,            \* process.env.SPLIT_ONLY === 'true'
  req,                  \* per request slot: the handler's (and its pipeline's) locals
  \* --- the document_batches table with several batches, and the jobs using it
  table,        \* batch id -> row
  job,          \* per job: the DocumentBatch instance it holds and its local arrays
  \* --- function harness: one call of a pure function on a drawn input
  fin,          \* the argument
  fout,         \* the value returned
  fpc           \* "input", or the name of the function that was applied

reconVars == <<given, splits, totalPages, validated, rpc>>
batchVars == <<row, servicesInitialized, splitOnly, req>>
storeVars == <<table, job>>
fnVars == <<fin, fout, fpc>>
vars == <<given, splits, totalPages, validated, rpc,
          row, servicesInitialized, splitOnly, req,
          table, job, fin, fout, fpc>>

Max(a, b) == IF a >= b THEN a ELSE b
Min(a, b) == IF a <= b THEN a ELSE b

\* ------------------------------------------------------------ reconcilers

\* Array.prototype.sort((a, b) => a.startPage - b.startPage): stable, so a
\* candidate is inserted after every already-placed one whose start is <= its own.
RECURSIVE InsertByStart(_, _)
InsertByStart(sorted, x) ==
  IF sorted = <<>> THEN <<x>>
  ELSE IF Head(sorted).startPage <= x.startPage
       THEN <<Head(sorted)>> \o InsertByStart(Tail(sorted), x)
       ELSE <<x>> \o sorted

RECURSIVE InsertionSort(_)
InsertionSort(s) ==
  IF s = <<>> THEN <<>>
  ELSE InsertByStart(InsertionSort(SubSeq(s, 1, Len(s) - 1)), s[Len(s)])

RECURSIVE Reverse(_)
Reverse(s) == IF s = <<>> THEN <<>> ELSE Append(Reverse(Tail(s)), Head(s))

\* Faulty variant of SortByStartPage: the comparator is written b - a.
SortByStartPageDescending(s) == Reverse(InsertionSort(s))

\* splits.sort((a, b) => a.startPage - b.startPage)
SortByStartPage(s) == InsertionSort(s)

\* Faulty variant of ClampStart: the candidate's own start is kept.
ClampStartKeepsOwn(split, currentPage) == split.startPage

\* const startPage = Math.max(split.startPage, currentPage)
ClampStart(split, currentPage) == Max(split.startPage, currentPage)

\* Faulty variant of ClampEnd: the end page is not capped at totalPages.
ClampEndNoCap(split, startPage, n) == Max(split.endPage, startPage)

\* const endPage = Math.min(split.endPage, totalPages);
\* const finalEndPage = Math.max(endPage, startPage)
ClampEnd(split, startPage, n) == Max(Min(split.endPage, n), startPage)

\* { ...split, startPage, endPage: finalEndPage, pageRange: `${startPage}-${finalEndPage}` }
Emit(split, startPage, endPage) ==
  [split EXCEPT !.startPage = startPage, !.endPage = endPage,
                !.pageRange = <<startPage, endPage>>]

\* The forEach of AzureOpenAIService.validateSplits: returns the pair
\* <<validatedSplits, currentPage>> after candidates i..Len(sorted).
RECURSIVE Walk(_, _, _, _, _)
Walk(sorted, i, out, currentPage, n) ==
  IF i > Len(sorted) THEN <<out, currentPage>>
  ELSE LET startPage == ClampStart(sorted[i], currentPage)
           finalEndPage == ClampEnd(sorted[i], startPage, n)
       IN IF startPage <= n
          THEN Walk(sorted, i + 1, Append(out, Emit(sorted[i], startPage, finalEndPage)),
                    finalEndPage + 1, n)
          ELSE Walk(sorted, i + 1, out, currentPage, n)

\* Faulty variant of NoSplitsSpan: the span carries the default confidence.
NoSplitsSpanDefaultConfidence(n) ==
  [id |-> <<"invoice", 1>>, startPage |-> 1, endPage |-> n, confidence |-> DefaultConfidence,
   reasoning |-> "no_splits", pageRange |-> <<1, n>>]

\* the single span returned for an empty or missing candidate list
NoSplitsSpan(n) ==
  [id |-> <<"invoice", 1>>, startPage |-> 1, endPage |-> n, confidence |-> FallbackConfidence,
   reasoning |-> "no_splits", pageRange |-> <<1, n>>]

\* the span pushed when the walk emitted nothing
RemainingSpan(currentPage, n) ==
  [id |-> <<"invoice", 1>>, startPage |-> currentPage, endPage |-> n, confidence |-> FallbackConfidence,
   reasoning |-> "remaining", pageRange |-> <<currentPage, n>>]

\* Faulty variant of ExtendLast: the last span is left as the walk emitted it.
ExtendLastNot(out, n) == out

\* lastSplit.endPage = totalPages; lastSplit.pageRange = `${lastSplit.startPage}-${totalPages}`
ExtendLast(out, n) ==
  LET lastSplit == out[Len(out)]
  IN [out EXCEPT ![Len(out)] =
        [lastSplit EXCEPT !.endPage = n, !.pageRange = <<lastSplit.startPage, n>>]]

\* AzureOpenAIService.validateSplits(splits, totalPages)
validateSplits(s, n) ==
  IF Len(s) = 0 THEN <<NoSplitsSpan(n)>>
  ELSE LET w == Walk(SortByStartPage(s), 1, <<>>, 1, n)
           out == w[1]
           currentPage == w[2]
       IN IF currentPage <= n
          THEN IF Len(out) > 0 THEN ExtendLast(out, n)
               ELSE Append(out, RemainingSpan(currentPage, n))
          ELSE out

\* PDFSplitterService.validateSplits: the forEach over [...splits].sort(...)
RECURSIVE SplitterWalk(_, _, _, _, _)
SplitterWalk(sorted, i, out, currentPage, n) ==
  IF i > Len(sorted) THEN <<out, currentPage>>
  ELSE LET startPage == Max(sorted[i].startPage, currentPage)
           endPage == Max(Min(sorted[i].endPage, n), startPage)
           withId == [sorted[i] EXCEPT !.id = IF @ = <<>> THEN <<"split", i>> ELSE @]
       IN IF startPage <= n
          THEN SplitterWalk(sorted, i + 1, Append(out, Emit(withId, startPage, endPage)),
                            endPage + 1, n)
          ELSE SplitterWalk(sorted, i + 1, out, currentPage, n)

\* the single span PDFSplitterService pushes when its walk emitted nothing
SinglePdfSpan(n) ==
  [id |-> <<"split", 1>>, startPage |-> 1, endPage |-> n,
   confidence |-> SplitterFallbackConfidence,
   reasoning |-> "single", pageRange |-> <<1, n>>]

\* PDFSplitterService.validateSplits(splits, totalPages)
splitterValidateSplits(s, n) ==
  LET w == SplitterWalk(InsertionSort(s), 1, <<>>, 1, n)
      out == w[1]
      currentPage == w[2]
  IN IF currentPage <= n
     THEN IF Len(out) > 0
          THEN LET lastSplit == out[Len(out)]
               IN [out EXCEPT ![Len(out)] =
                     [lastSplit EXCEPT !.endPage = n,
                                       !.pageRange = <<lastSplit.startPage, n>>]]
          ELSE Append(out, SinglePdfSpan(n))
     ELSE out

\* ------------------------------------------------- boundary detection

\* a reply of the oracle: its text either holds a JSON array or does not
NoJsonReply == [received |-> TRUE, json |-> FALSE, items |-> <<>>]
JsonReply(items) == [received |-> TRUE, json |-> TRUE, items |-> items]
\* no reply: the call threw, or was not made
NoReply == [received |-> FALSE, json |-> FALSE, items |-> <<>>]
\* one array element as the oracle wrote it; 0 stands for a missing or
\* non-numeric property
RawItem(s, e, c) == [startPage |-> s, endPage |-> e, confidence |-> c]

\* Faulty variant of ParseFallback: the fallback span is given the default confidence.
ParseFallbackDefaultConfidence(n) ==
  << [id |-> <<"invoice", 1>>, startPage |-> 1, endPage |-> n,
      confidence |-> DefaultConfidence,
      reasoning |-> "fallback_parse", pageRange |-> <<1, n>>] >>

\* parseAIResponse's catch: one candidate spanning all pages
ParseFallback(n) ==
  << [id |-> <<"invoice", 1>>, startPage |-> 1, endPage |-> n,
      confidence |-> FallbackConfidence,
      reasoning |-> "fallback_parse", pageRange |-> <<1, n>>] >>

\* x || d
OrElse(x, d) == IF x = 0 THEN d ELSE x

\* AzureOpenAIService.parseAIResponse(aiResponse, totalPages)
parseAIResponse(reply, n) ==
  IF ~reply.json THEN ParseFallback(n)
  ELSE [i \in 1..Len(reply.items) |->
          [id |-> <<"invoice", i>>,
           startPage |-> OrElse(reply.items[i].startPage, 1),
           endPage |-> OrElse(reply.items[i].endPage, 1),
           confidence |-> OrElse(reply.items[i].confidence, DefaultConfidence),
           reasoning |-> "ai",
           pageRange |-> <<reply.items[i].startPage, reply.items[i].endPage>>]]

\* what a call of an external client does
CallOutcomes == {"ok", "throws"}

\* AzureOpenAIService.detectInvoiceBoundaries(pages): the whole body is inside
\* try/catch, so a throwing client call comes back as {success: false, error}
detectInvoiceBoundaries(outcome, reply, n) ==
  IF outcome = "throws"
  THEN [success |-> FALSE, threw |-> FALSE, error |-> "oracle", splits |-> <<>>]
  ELSE [success |-> TRUE, threw |-> FALSE, error |-> "none",
        splits |-> validateSplits(parseAIResponse(reply, n), n)]

\* Faulty variant of extractTextFromPDF: the analysis call is outside the try block.
extractTextFromPDFUnguarded(outcome) ==
  IF outcome = "throws"
  THEN [success |-> FALSE, threw |-> TRUE, error |-> "layout", splits |-> <<>>]
  ELSE [success |-> TRUE, threw |-> FALSE, error |-> "none", splits |-> <<>>]

\* AzureDocumentLayoutService.extractTextFromPDF(filePath): every failure
\* (no client, no pages, an exception) is returned as {success: false, error}
extractTextFromPDF(outcome) ==
  IF outcome = "throws"
  THEN [success |-> FALSE, threw |-> FALSE, error |-> "layout", splits |-> <<>>]
  ELSE [success |-> TRUE, threw |-> FALSE, error |-> "none", splits |-> <<>>]

\* the replies the oracle gives in this model
OracleReplies ==
  { NoJsonReply,
    JsonReply(<<>>),
    JsonReply(<< RawItem(1, 1, 9), RawItem(2, DocPages, 0) >>) }

\* ------------------------------------------------- the batch row

\* the row DocumentBatch.create inserts
NewRow ==
  [status |-> "UPLOADED", proposed_splits |-> <<>>, validated_splits |-> <<>>,
   extracted_data |-> <<>>, confidence_scores |-> <<>>, error_message |-> <<>>]

\* DocumentBatch.update(updateData): UPDATE ... SET <the given columns> WHERE id = ?
\* updateData is a function from column names to values
Update(r, updateData) ==
  [c \in DOMAIN r |-> IF c \in DOMAIN updateData THEN updateData[c] ELSE r[c]]

\* Faulty variant of UpdateSplitsRow: the status is set back to SPLIT_PROPOSED as well.
UpdateSplitsRowAlsoStatus(r, s) ==
  [r EXCEPT !.proposed_splits = s, !.status = "SPLIT_PROPOSED"]

\* DocumentBatch.updateSplits(id, splits): SET proposed_splits = ?
UpdateSplitsRow(r, s) == [r EXCEPT !.proposed_splits = s]

Reqs == 1..MaxReqs

NoResult == [success |-> FALSE, threw |-> FALSE, error |-> "none", splits |-> <<>>]
NoBody == [isArray |-> FALSE, items |-> <<>>]

\* a free request slot
Idle ==
  [kind |-> "none", pc |-> "idle", seen |-> "none", body |-> NoBody,
   reply |-> NoReply, res |-> NoResult, vs |-> <<>>, i |-> 0,
   invoices |-> <<>>, scores |-> <<>>, err |-> <<>>]

BatchInit ==
  /\ row = NewRow
  /\ servicesInitialized = FALSE
  /\ splitOnly \in BOOLEAN
  /\ req = [r \in Reqs |-> Idle]

\* the harness is at rest while the batch runs, and the batch while the harness runs
ReconAtRest ==
  /\ given = <<>>
  /\ splits = <<>>
  /\ totalPages = DocPages
  /\ validated = <<>>
  /\ rpc = "rest"

BatchAtRest ==
  /\ row = NewRow
  /\ servicesInitialized = FALSE
  /\ splitOnly = FALSE
  /\ req = [r \in Reqs |-> Idle]

\* batch ids of the rows in the table
BatchIds == 1..MaxBatches
\* jobs (a request handler with the pipeline it kicks off) at work at once
Jobs == 1..MaxJobs

\* a job holding no DocumentBatch instance; changed is `this.changes > 0` of the
\* job's last statement, notFound the 404 of a lookup that found no row
NoJob ==
  [batch |-> 0, n |-> 0, invoices |-> <<>>, scores |-> <<>>,
   changed |-> FALSE, notFound |-> FALSE]

\* the place of a row DELETE has removed
NoRow == <<>>

StoreAtRest ==
  /\ table = [b \in BatchIds |-> NewRow]
  /\ job = [j \in Jobs |-> NoJob]

FnAtRest ==
  /\ fin = <<>>
  /\ fout = <<>>
  /\ fpc = "rest"

\* ------------------------------------------------- reconciler harness

\* Page numbers a drawn candidate carries for an n-page document: a negative
\* one, every page, and one past the end.  (parseAIResponse turns 0 into 1.)
PageVals(n) == {-1} \cup (1..(n + 1))

\* confidence (tenths) carried by the i-th candidate of a drawn list
DrawnConfidence(i) == IF i = 1 THEN 9 ELSE 7

\* the candidate parseAIResponse builds for array element i with pages s..e
Candidate(i, s, e) ==
  [id |-> <<"invoice", i>>, startPage |-> s, endPage |-> e,
   confidence |-> DrawnConfidence(i), reasoning |-> "ai", pageRange |-> <<s, e>>]

ReconInit ==
  /\ totalPages \in 1..MaxPages
  /\ \E k \in 0..MaxCands :
       \E f \in [1..k -> PageVals(totalPages) \X PageVals(totalPages)] :
          given = [i \in 1..k |-> Candidate(i, f[i][1], f[i][2])]
  /\ splits = given
  /\ validated = <<>>
  /\ rpc = "input"
  /\ BatchAtRest
  /\ StoreAtRest
  /\ FnAtRest

\* one call of AzureOpenAIService.validateSplits(splits, totalPages)
OpenAIValidateSplits ==
  /\ rpc = "input"
  /\ validated' = validateSplits(splits, totalPages)
  /\ splits' = SortByStartPage(splits)
  /\ rpc' = "openai"
  /\ UNCHANGED <<given, totalPages, batchVars, storeVars, fnVars>>

\* one call of PDFSplitterService.validateSplits(splits, totalPages)
SplitterValidateSplits ==
  /\ rpc = "input"
  /\ validated' = splitterValidateSplits(splits, totalPages)
  /\ rpc' = "splitter"
  /\ UNCHANGED <<given, splits, totalPages, batchVars, storeVars, fnVars>>

ReconNext == OpenAIValidateSplits \/ SplitterValidateSplits

SpecRecon == ReconInit /\ [][ReconNext]_vars

\* ------------------------------------------------- requests and pipelines

\* a slot whose handler has answered and that runs no pipeline
Free(r) == req[r].pc \in {"idle", "rejected", "invalid", "failed"}

\* the handler of slot r answered: the slot keeps only how it ended
Answered(kind, how) == [Idle EXCEPT !.kind = kind, !.pc = how]

\* Faulty variant of StartGuard: ERROR is accepted for reprocessing as well.
StartGuardAlsoError(status) ==
  status \in {"UPLOADED", "SPLIT_PROPOSED", "PROCESSING_FAILED", "ERROR"}

\* ['UPLOADED', 'SPLIT_PROPOSED', 'PROCESSING_FAILED'].includes(documentBatch.status)
StartGuard(status) == status \in {"UPLOADED", "SPLIT_PROPOSED", "PROCESSING_FAILED"}

\* startProcessing up to its first write: findById, then the status guard
StartProcessing(r) ==
  /\ Free(r)
  /\ req' = [req EXCEPT ![r] =
       IF StartGuard(row.status)
       THEN [Idle EXCEPT !.kind = "start", !.pc = "sp_update", !.seen = row.status]
       ELSE Answered("start", "rejected")]
  /\ UNCHANGED <<row, servicesInitialized, splitOnly, reconVars, storeVars, fnVars>>

\* await documentBatch.update({ status: 'PROCESSING_SPLIT' }), then
\* this.processDocumentBatch(documentBatch) is started and the request answered
StartProcessingUpdate(r) ==
  /\ req[r].pc = "sp_update"
  /\ row' = Update(row, [status |-> "PROCESSING_SPLIT"])
  /\ req' = [req EXCEPT ![r].pc = "pd_run", ![r].seen = "none"]
  /\ UNCHANGED <<servicesInitialized, splitOnly, reconVars, storeVars, fnVars>>

\* what processDocumentBatch holds when it reaches its update, after a text
\* extraction that gave textResult and a boundary detection that gave detectResult
AfterText(slot, textResult) ==
  [slot EXCEPT !.res = textResult, !.pc = "pd_catch",
               !.err = IF textResult.threw THEN <<textResult.error>>
                       ELSE <<"Text extraction failed", textResult.error>>]

AfterDetect(slot, reply, detectResult) ==
  [slot EXCEPT !.res = detectResult, !.reply = reply,
               !.pc = IF detectResult.success THEN "pd_store" ELSE "pd_catch",
               !.err = IF detectResult.success THEN <<>>
                       ELSE <<"Boundary detection failed", detectResult.error>>]

\* azureOpenAIService.detectInvoiceBoundaries(textResult.pages) for every
\* outcome of the oracle call and every reply, evaluated once
DetectResults ==
  [oracle \in CallOutcomes |->
     [reply \in OracleReplies |-> detectInvoiceBoundaries(oracle, reply, DocPages)]]

\* processDocumentBatch from its start to its update: initializeServices,
\* extractTextFromPDF and the test of its result, detectInvoiceBoundaries and the
\* test of its result.  None of it reads or writes the row.
ProcessRun(r) ==
  /\ req[r].pc = "pd_run"
  /\ \E init \in (IF servicesInitialized THEN {"ok"} ELSE CallOutcomes),
        text \in CallOutcomes, oracle \in CallOutcomes, reply \in OracleReplies :
       IF init = "throws"
       THEN /\ req' = [req EXCEPT ![r].pc = "pd_catch", ![r].err = <<"init">>]
            /\ UNCHANGED servicesInitialized
       ELSE LET textResult == extractTextFromPDF(text)
            IN /\ servicesInitialized' = TRUE
               /\ req' = [req EXCEPT ![r] =
                    IF textResult.success /\ ~textResult.threw
                    THEN AfterDetect(@, IF oracle = "ok" THEN reply ELSE NoReply,
                                     DetectResults[oracle][reply])
                    ELSE AfterText(@, textResult)]
  /\ UNCHANGED <<row, splitOnly, reconVars, storeVars, fnVars>>

\* Faulty variant of ProcessStore: the update stores the splits but no status.
ProcessStoreKeepsStatus(r) ==
  /\ req[r].pc = "pd_store"
  /\ row' = Update(row, [proposed_splits |-> req[r].res.splits])
  /\ req' = [req EXCEPT ![r] = Idle]
  /\ UNCHANGED <<servicesInitialized, splitOnly, reconVars, storeVars, fnVars>>

\* await documentBatch.update({ status: 'SPLIT_PROPOSED', proposed_splits })
ProcessStore(r) ==
  /\ req[r].pc = "pd_store"
  /\ row' = Update(row, [status |-> "SPLIT_PROPOSED",
                         proposed_splits |-> req[r].res.splits])
  /\ req' = [req EXCEPT ![r] = Idle]
  /\ UNCHANGED <<servicesInitialized, splitOnly, reconVars, storeVars, fnVars>>

\* processDocumentBatch's catch: update({ status: 'ERROR', error_message }); throw
ProcessCatch(r) ==
  /\ req[r].pc = "pd_catch"
  /\ row' = Update(row, [status |-> "ERROR", error_message |-> req[r].err])
  /\ req' = [req EXCEPT ![r].pc = "sp_catch", ![r].res = NoResult,
                        ![r].reply = NoReply]
  /\ UNCHANGED <<servicesInitialized, splitOnly, reconVars, storeVars, fnVars>>

\* startProcessing's .catch on the pipeline: the same update once more
StartProcessingCatch(r) ==
  /\ req[r].pc = "sp_catch"
  /\ row' = Update(row, [status |-> "ERROR", error_message |-> req[r].err])
  /\ req' = [req EXCEPT ![r] = Idle]
  /\ UNCHANGED <<servicesInitialized, splitOnly, reconVars, storeVars, fnVars>>

\* a span as a client sends it: no id, no confidence
UserSpan(s, e) ==
  [id |-> <<>>, startPage |-> s, endPage |-> e, confidence |-> 0,
   reasoning |-> "user", pageRange |-> <<>>]

ArrayBody(items) == [isArray |-> TRUE, items |-> items]

\* the validatedSplits bodies clients send in this model
ValidateBodies ==
  { NoBody,
    ArrayBody(<<>>),
    ArrayBody(<< UserSpan(1, 1), UserSpan(2, DocPages) >>) }

\* the splits bodies clients send to updateSplits in this model; a startPage of 0
\* stands for an element lacking startPage
UpdateBodies ==
  { NoBody,
    ArrayBody(<< UserSpan(0, 1) >>),
    ArrayBody(<< UserSpan(1, 1) >>) }

\* PDFSplitterService.createSplitPDF's result for one validated split
createSplitPDF(split) ==
  [id |-> split.id, startPage |-> split.startPage, endPage |-> split.endPage,
   confidence |-> OrElse(split.confidence, SplitterFallbackConfidence),
   reasoning |-> split.reasoning]

\* PDFSplitterService.splitPDF(originalFilePath, splits, batchId): everything is
\* inside try/catch; an empty list, an unreadable file or a failed page copy come
\* back as {success: false, error, splits: []}
splitPDF(outcome, s, n) ==
  IF Len(s) = 0 \/ outcome = "throws"
  THEN [success |-> FALSE, threw |-> FALSE, error |-> "split", splits |-> <<>>]
  ELSE LET v == splitterValidateSplits(s, n)
       IN [success |-> TRUE, threw |-> FALSE, error |-> "none",
           splits |-> [k \in 1..Len(v) |-> createSplitPDF(v[k])]]

\* pdfSplitterService.splitPDF(documentBatch.filePath, validatedSplits, batchId)
\* for every outcome of the call and every array body, evaluated once
SplitResults ==
  [outcome \in CallOutcomes |->
     [b \in ValidateBodies \ {NoBody} |-> splitPDF(outcome, b.items, DocPages)]]

\* documentBatch.status !== 'SPLIT_PROPOSED' rejects
ValidateGuard(status) == status = "SPLIT_PROPOSED"

\* validateSplits up to splitPDF: the body check, findById, the status guard
ValidateSplitsRequest(r) ==
  /\ Free(r)
  /\ \E body \in ValidateBodies :
       req' = [req EXCEPT ![r] =
         IF ~body.isArray THEN Answered("validate", "invalid")
         ELSE IF ValidateGuard(row.status)
         THEN [Idle EXCEPT !.kind = "validate", !.pc = "vs_split",
                           !.seen = row.status, !.body = body]
         ELSE Answered("validate", "rejected")]
  /\ UNCHANGED <<row, servicesInitialized, splitOnly, reconVars, storeVars, fnVars>>

\* Faulty variant of SplitFailureUpdate: a failed split marks the batch ERROR.
SplitFailureMarksError(r, result) ==
  Update(r, [status |-> "ERROR", error_message |-> <<"PDF splitting failed", result.error>>])

\* Faulty variant of SplitFailureUpdate: the failed result is stored as validated.
SplitFailureStoresResult(r, result) ==
  Update(r, [status |-> "SPLIT_VALIDATED", validated_splits |-> result.splits])

\* if (!splitResult.success) return res.status(500).json(...): nothing is written
SplitFailureUpdate(r, result) == r

\* await pdfSplitterService.splitPDF(...), the test of its result, and
\* await documentBatch.update({ status: 'SPLIT_VALIDATED', validated_splits })
ValidateSplitsApply(r) ==
  /\ req[r].pc = "vs_split"
  /\ \E outcome \in CallOutcomes :
       LET result == SplitResults[outcome][req[r].body]
       IN IF result.success
          THEN /\ req' = [req EXCEPT ![r] = Idle]
               /\ row' = Update(row, [status |-> "SPLIT_VALIDATED",
                                      validated_splits |-> result.splits])
          ELSE /\ req' = [req EXCEPT ![r] = Answered("validate", "failed")]
               /\ row' = SplitFailureUpdate(row, result)
  /\ UNCHANGED <<servicesInitialized, splitOnly, reconVars, storeVars, fnVars>>

\* documentBatch.status !== 'SPLIT_VALIDATED' rejects
ExtractGuard(status) == status = "SPLIT_VALIDATED"

\* Faulty variant of ExtractInvoiceData: SPLIT_ONLY is not looked at.
ExtractInvoiceDataUnrefused(r) ==
  /\ Free(r)
  /\ req' = [req EXCEPT ![r] =
       IF ExtractGuard(row.status)
       THEN [Idle EXCEPT !.kind = "extract", !.pc = "ex_update",
                         !.seen = row.status, !.vs = row.validated_splits]
       ELSE Answered("extract", "rejected")]
  /\ UNCHANGED <<row, servicesInitialized, splitOnly, reconVars, storeVars, fnVars>>

\* extractInvoiceData up to its first write: the SPLIT_ONLY refusal, findById,
\* the status guard; the instance keeps the validated splits it read
ExtractInvoiceData(r) ==
  /\ Free(r)
  /\ req' = [req EXCEPT ![r] =
       IF splitOnly THEN Answered("extract", "invalid")
       ELSE IF ExtractGuard(row.status)
       THEN [Idle EXCEPT !.kind = "extract", !.pc = "ex_update",
                         !.seen = row.status, !.vs = row.validated_splits]
       ELSE Answered("extract", "rejected")]
  /\ UNCHANGED <<row, servicesInitialized, splitOnly, reconVars, storeVars, fnVars>>

\* await documentBatch.update({ status: 'EXTRACTING_DATA' }), then
\* extractBatchInvoiceData is started and runs up to its first extraction call
ExtractInvoiceDataUpdate(r) ==
  /\ req[r].pc = "ex_update"
  /\ row' = Update(row, [status |-> "EXTRACTING_DATA"])
  /\ req' = [req EXCEPT ![r] =
       IF splitOnly
       THEN [Idle EXCEPT !.kind = "extract", !.pc = "eb_catch",
                         !.err = <<"SPLIT_ONLY mode enabled">>]
       ELSE IF Len(@.vs) = 0
       THEN [Idle EXCEPT !.kind = "extract", !.pc = "eb_catch",
                         !.err = <<"No validated splits found">>]
       ELSE [@ EXCEPT !.pc = "eb_call", !.i = 1, !.seen = "none"]]
  /\ UNCHANGED <<servicesInitialized, splitOnly, reconVars, storeVars, fnVars>>

\* what processInvoiceWithFullMapping does for one split
ExtractionOutcomes == {"ok", "unsuccessful", "throws"}

\* the record pushed for a split whose extraction succeeded
SuccessRecord(split) == [splitId |-> split.id, confidence |-> 8, error |-> <<>>]

\* the record pushed for a split whose extraction returned success: false
FailureRecord(split) ==
  [splitId |-> split.id, confidence |-> 0, error |-> <<"mapping failed">>]

\* Faulty variant of SetScore: a failed extraction leaves no score behind.
SetScoreOnlyPositive(scores, id, c) ==
  IF c = 0 THEN scores
  ELSE [x \in (DOMAIN scores) \cup {id} |-> IF x = id THEN c ELSE scores[x]]

\* confidenceScores[split.id] = confidence
SetScore(scores, id, c) ==
  [x \in (DOMAIN scores) \cup {id} |-> IF x = id THEN c ELSE scores[x]]

\* one turn of extractBatchInvoiceData's for loop: the extraction call for
\* split i returns or throws; the loop has no try/catch of its own
ExtractOneSplit(r) ==
  /\ req[r].pc = "eb_call"
  /\ \E outcome \in ExtractionOutcomes :
       LET split == req[r].vs[req[r].i]
           rec == IF outcome = "ok" THEN SuccessRecord(split) ELSE FailureRecord(split)
       IN req' = [req EXCEPT ![r] =
            IF outcome = "throws"
            THEN [Idle EXCEPT !.kind = "extract", !.pc = "eb_catch",
                              !.err = <<"extraction threw">>]
            ELSE [@ EXCEPT !.invoices = Append(@, rec),
                           !.scores = SetScore(@, split.id, rec.confidence),
                           !.i = @ + 1,
                           !.pc = IF req[r].i = Len(req[r].vs)
                                  THEN "eb_store" ELSE "eb_call"]]
  /\ UNCHANGED <<row, servicesInitialized, splitOnly, reconVars, storeVars, fnVars>>

\* await documentBatch.update({ status: 'DATA_VALIDATION_PENDING',
\*   extracted_data, confidence_scores })
ExtractStore(r) ==
  /\ req[r].pc = "eb_store"
  /\ row' = Update(row, [status |-> "DATA_VALIDATION_PENDING",
                         extracted_data |-> req[r].invoices,
                         confidence_scores |-> req[r].scores])
  /\ req' = [req EXCEPT ![r] = Idle]
  /\ UNCHANGED <<servicesInitialized, splitOnly, reconVars, storeVars, fnVars>>

\* extractBatchInvoiceData's catch: update({ status: 'ERROR', error_message }); throw
ExtractCatch(r) ==
  /\ req[r].pc = "eb_catch"
  /\ row' = Update(row, [status |-> "ERROR", error_message |-> req[r].err])
  /\ req' = [req EXCEPT ![r] = [Idle EXCEPT !.kind = "extract", !.pc = "ex_catch",
                                            !.err = req[r].err]]
  /\ UNCHANGED <<servicesInitialized, splitOnly, reconVars, storeVars, fnVars>>

\* extractInvoiceData's .catch on the pipeline: the same update once more
ExtractInvoiceDataCatch(r) ==
  /\ req[r].pc = "ex_catch"
  /\ row' = Update(row, [status |-> "ERROR", error_message |-> req[r].err])
  /\ req' = [req EXCEPT ![r] = Idle]
  /\ UNCHANGED <<servicesInitialized, splitOnly, reconVars, storeVars, fnVars>>

\* updateSplits up to its write: findById, then the checks of the body
UpdateSplitsRequest(r) ==
  /\ Free(r)
  /\ \E body \in UpdateBodies :
       req' = [req EXCEPT ![r] =
         IF ~body.isArray
            \/ \E k \in 1..Len(body.items) :
                 body.items[k].startPage = 0 \/ body.items[k].endPage = 0
         THEN Answered("update", "invalid")
         ELSE [Idle EXCEPT !.kind = "update", !.pc = "us_update", !.body = body]]
  /\ UNCHANGED <<row, servicesInitialized, splitOnly, reconVars, storeVars, fnVars>>

\* await DocumentBatch.updateSplits(batchId, splits)
UpdateSplitsWrite(r) ==
  /\ req[r].pc = "us_update"
  /\ row' = UpdateSplitsRow(row, req[r].body.items)
  /\ req' = [req EXCEPT ![r] = Idle]
  /\ UNCHANGED <<servicesInitialized, splitOnly, reconVars, storeVars, fnVars>>

Next ==
  \E r \in Reqs :
    \/ StartProcessing(r)
    \/ StartProcessingUpdate(r)
    \/ ProcessRun(r)
    \/ ProcessStore(r)
    \/ ProcessCatch(r)
    \/ StartProcessingCatch(r)
    \/ ValidateSplitsRequest(r)
    \/ ValidateSplitsApply(r)
    \/ ExtractInvoiceData(r)
    \/ ExtractInvoiceDataUpdate(r)
    \/ ExtractOneSplit(r)
    \/ ExtractStore(r)
    \/ ExtractCatch(r)
    \/ ExtractInvoiceDataCatch(r)
    \/ UpdateSplitsRequest(r)
    \/ UpdateSplitsWrite(r)

Init == BatchInit /\ ReconAtRest /\ StoreAtRest /\ FnAtRest

Spec == Init /\ [][Next]_vars

\* The steps with which a handler or pipeline that is already running goes on:
\* each is the resumption after an await (a store write or an external call).
Resume(r) ==
  \/ StartProcessingUpdate(r)
  \/ ProcessRun(r)
  \/ ProcessStore(r)
  \/ ProcessCatch(r)
  \/ StartProcessingCatch(r)
  \/ ValidateSplitsApply(r)
  \/ ExtractInvoiceDataUpdate(r)
  \/ ExtractOneSplit(r)
  \/ ExtractStore(r)
  \/ ExtractCatch(r)
  \/ ExtractInvoiceDataCatch(r)
  \/ UpdateSplitsWrite(r)

\* Every awaited external call returns or throws and every store write
\* completes: a running handler is always resumed.  Requests arrive or not.
FairSpec == Init /\ [][Next]_vars /\ \A r \in Reqs : WF_vars(Resume(r))

\* ------------------------------------------------- several batches, one table

\* Faulty variant of UpdateWhereId: the UPDATE statement has no WHERE clause.
UpdateEveryRow(t, id, updateData) ==
  [b \in DOMAIN t |-> IF t[b] = NoRow THEN NoRow ELSE Update(t[b], updateData)]

\* Faulty variant of UpdateWhereId: a missing row is inserted (INSERT OR REPLACE).
UpsertWhereId(t, id, updateData) ==
  [t EXCEPT ![id] = Update(IF @ = NoRow THEN NewRow ELSE @, updateData)]

\* DocumentBatch.update as the table sees it: values.push(this.id) and
\* UPDATE document_batches SET ... WHERE id = ?; no row matches a deleted id
UpdateWhereId(t, id, updateData) ==
  [t EXCEPT ![id] = IF @ = NoRow THEN NoRow ELSE Update(@, updateData)]

\* DocumentBatch.updateSplits as the table sees it: ... WHERE id = ?
UpdateSplitsWhereId(t, id, s) ==
  [t EXCEPT ![id] = IF @ = NoRow THEN NoRow ELSE UpdateSplitsRow(@, s)]

\* DocumentBatch.delete as the table sees it: DELETE FROM document_batches WHERE id = ?
DeleteWhereId(t, id) == [t EXCEPT ![id] = NoRow]

\* this.changes > 0 of a statement with WHERE id = ?
Changes(t, id) == t[id] # NoRow

\* the updateData objects the controller's handlers and pipelines pass to
\* documentBatch.update, for the job holding the instance
ControllerUpdates(j) ==
  { [status |-> "PROCESSING_SPLIT"],
    [status |-> "SPLIT_PROPOSED", proposed_splits |-> ParseFallback(DocPages)],
    [status |-> "ERROR", error_message |-> <<"failed", job[j].batch>>],
    [status |-> "SPLIT_VALIDATED", validated_splits |-> <<SinglePdfSpan(DocPages)>>],
    [status |-> "EXTRACTING_DATA"],
    [status |-> "DATA_VALIDATION_PENDING", extracted_data |-> job[j].invoices,
     confidence_scores |-> job[j].scores] }

\* a job may perform one more store operation
MayOperate(j) == job[j].batch # 0 /\ job[j].n < MaxOps

\* const documentBatch = await DocumentBatch.findById(batchId): SELECT ... WHERE id = ?
\* resolve(new DocumentBatch(row)) or resolve(null), which the handlers answer with 404
FindById(j, b) ==
  /\ job[j].batch = 0
  /\ job' = [job EXCEPT ![j] =
       IF table[b] = NoRow THEN [NoJob EXCEPT !.notFound = TRUE]
       ELSE [NoJob EXCEPT !.batch = b, !.n = 1]]
  /\ UNCHANGED <<table, batchVars, reconVars, fnVars>>

\* await documentBatch.update(updateData) on the instance the job holds
InstanceUpdate(j) ==
  /\ MayOperate(j)
  /\ \E updateData \in ControllerUpdates(j) :
       table' = UpdateWhereId(table, job[j].batch, updateData)
  /\ job' = [job EXCEPT ![j].n = @ + 1, ![j].changed = Changes(table, job[j].batch)]
  /\ UNCHANGED <<batchVars, reconVars, fnVars>>

\* await DocumentBatch.updateSplits(batchId, splits)
StaticUpdateSplits(j) ==
  /\ MayOperate(j)
  /\ table' = UpdateSplitsWhereId(table, job[j].batch, <<UserSpan(1, DocPages)>>)
  /\ job' = [job EXCEPT ![j].n = @ + 1, ![j].changed = Changes(table, job[j].batch)]
  /\ UNCHANGED <<batchVars, reconVars, fnVars>>

\* deleteBatch after its findById: await documentBatch.delete()
DeleteBatch(j) ==
  /\ MayOperate(j)
  /\ table' = DeleteWhereId(table, job[j].batch)
  /\ job' = [job EXCEPT ![j].n = @ + 1, ![j].changed = Changes(table, job[j].batch)]
  /\ UNCHANGED <<batchVars, reconVars, fnVars>>

\* extractedInvoices.push(...) and confidenceScores[split.id] = ... on the
\* arrays local to one call of extractBatchInvoiceData
PushResult(j) ==
  /\ MayOperate(j)
  /\ \E rec \in {SuccessRecord(SinglePdfSpan(DocPages)), FailureRecord(SinglePdfSpan(DocPages))} :
       job' = [job EXCEPT ![j].invoices = Append(@, rec),
                          ![j].scores = SetScore(@, rec.splitId, rec.confidence),
                          ![j].n = @ + 1]
  /\ UNCHANGED <<table, batchVars, reconVars, fnVars>>

StoreInit ==
  /\ table = [b \in BatchIds |-> NewRow]
  /\ job = [j \in Jobs |-> NoJob]
  /\ BatchAtRest
  /\ ReconAtRest
  /\ FnAtRest

StoreNext ==
  \E j \in Jobs :
    \/ \E b \in BatchIds : FindById(j, b)
    \/ InstanceUpdate(j)
    \/ StaticUpdateSplits(j)
    \/ PushResult(j)
    \/ DeleteBatch(j)

SpecStore == StoreInit /\ [][StoreNext]_vars

\* ------------------------------------------------- function harness

\* Faulty variant of TierOrder: the query table is tested first.
TierOrderQueryFirst == <<"query", "standard", "llm">>

\* AzureDIFieldMapping.getFieldExtractionMethod tests standardFields, then
\* queryFields, then llmFields: the tiers Deterministic, TargetedLookup and
\* InferenceFallback in their order of precedence
TierOrder == <<"standard", "query", "llm">>

\* canonical fields of the merge harness (one of each table)
MergeFields == {"invoice_id", "exporter_street"}

\* what one tier holds for one field: nothing, the empty string, or a value
Absent == "absent"
TierValues == {Absent, "", "A", "B"}

IsEmptyValue(v) == v = Absent \/ v = ""

\* the merged field when no tier supplied a value
EmptyField == [value |-> "", tier |-> "none"]

\* scan the tiers order[k..] for the first non-empty value of field f
RECURSIVE FirstNonEmpty(_, _, _, _)
FirstNonEmpty(tiers, order, k, f) ==
  IF k > Len(order) THEN EmptyField
  ELSE IF ~IsEmptyValue(tiers[order[k]][f])
       THEN [value |-> tiers[order[k]][f], tier |-> order[k]]
       ELSE FirstNonEmpty(tiers, order, k + 1, f)

\* the merge of the three tiers' answers into one record
mergeTiers(tiers) ==
  [f \in MergeFields |-> FirstNonEmpty(tiers, TierOrder, 1, f)]

MergeInputs ==
  { [kind |-> "merge", tiers |-> [standard |-> s, query |-> q, llm |-> l]] :
      s \in [MergeFields -> TierValues], q \in [MergeFields -> TierValues],
      l \in [MergeFields -> TierValues] }

\* one call of the merge
MergeTiers ==
  /\ fpc = "input"
  /\ fin.kind = "merge"
  /\ fout' = mergeTiers(fin.tiers)
  /\ fpc' = "merge"
  /\ UNCHANGED <<fin, batchVars, reconVars, storeVars>>

\* ---- parseNumericValue

\* JavaScript values the numeric helpers meet: null/undefined, a string (a
\* sequence of characters), a finite number n / 10^k, or NaN / an infinity
Null == [t |-> "null"]
Str(s) == [t |-> "str", s |-> s]
Num(n, k) == [t |-> "num", n |-> n, k |-> k]
NaN == [t |-> "nan"]
Zero == Num(0, 0)

Digits == {"0", "1", "2", "3", "4", "5", "6", "7", "8", "9"}
DigitVal ==
  ("0" :> 0) @@ ("1" :> 1) @@ ("2" :> 2) @@ ("3" :> 3) @@ ("4" :> 4) @@
  ("5" :> 5) @@ ("6" :> 6) @@ ("7" :> 7) @@ ("8" :> 8) @@ ("9" :> 9)

RECURSIVE Pow10(_)
Pow10(k) == IF k = 0 THEN 1 ELSE 10 * Pow10(k - 1)

\* the integer a digit string denotes (0 for the empty one)
RECURSIVE DigitsValue(_)
DigitsValue(ds) ==
  IF ds = <<>> THEN 0
  ELSE 10 * DigitsValue(SubSeq(ds, 1, Len(ds) - 1)) + DigitVal[ds[Len(ds)]]

\* String.prototype.trim
RECURSIVE TrimLeft(_)
TrimLeft(s) == IF s # <<>> /\ Head(s) = " " THEN TrimLeft(Tail(s)) ELSE s
RECURSIVE TrimRight(_)
TrimRight(s) ==
  IF s # <<>> /\ s[Len(s)] = " " THEN TrimRight(SubSeq(s, 1, Len(s) - 1)) ELSE s
Trim(s) == TrimRight(TrimLeft(s))

\* s.replace(/(CHF|EUR|USD|GBP|JPY|CNY|€|\$|£)\s*/gi, ''): a currency symbol
\* goes together with the white space after it.  (The currency words are
\* letters, which the next replace removes as well.)
CurrencySymbols == {"€", "$", "£"}
RECURSIVE StripCurrency(_)
StripCurrency(s) ==
  IF s = <<>> THEN <<>>
  ELSE IF Head(s) \in CurrencySymbols THEN StripCurrency(TrimLeft(Tail(s)))
       ELSE <<Head(s)>> \o StripCurrency(Tail(s))

\* s.replace(/[^0-9,.'\-\s]/g, '')
KeptChar(c) == c \in Digits \cup {",", ".", "'", "-", " "}
\* s.replace(/[\s']/g, '')
NotSpaceOrApostrophe(c) == c \notin {" ", "'"}
\* .replace(/[.,]/g, '')
NotSeparator(c) == c \notin {",", "."}
\* s.replace(/[^0-9\-]/g, '')
DigitOrMinus(c) == c \in Digits \cup {"-"}

\* s.lastIndexOf(c), counting from 1; 0 when c does not occur
RECURSIVE LastIndexOf(_, _)
LastIndexOf(s, c) ==
  IF s = <<>> THEN 0
  ELSE IF s[Len(s)] = c THEN Len(s)
       ELSE LastIndexOf(SubSeq(s, 1, Len(s) - 1), c)

\* the longest prefix of s made of digits
RECURSIVE LeadingDigits(_)
LeadingDigits(s) ==
  IF s # <<>> /\ Head(s) \in Digits THEN <<Head(s)>> \o LeadingDigits(Tail(s)) ELSE <<>>

\* parseFloat on a string of digits, '-' and '.': an optional sign, digits, an
\* optional '.' and digits; whatever follows is ignored; NaN without a digit
parseFloat(s) ==
  LET negative == s # <<>> /\ Head(s) = "-"
      body == IF negative THEN Tail(s) ELSE s
      intDigits == LeadingDigits(body)
      rest == SubSeq(body, Len(intDigits) + 1, Len(body))
      fracDigits == IF rest # <<>> /\ Head(rest) = "." THEN LeadingDigits(Tail(rest))
                    ELSE <<>>
      magnitude == DigitsValue(intDigits \o fracDigits)
  IN IF Len(intDigits) + Len(fracDigits) = 0 THEN NaN
     ELSE Num(IF negative THEN 0 - magnitude ELSE magnitude, Len(fracDigits))

\* Faulty variant of DecimalSplit: the first separator is taken as the decimal one.
DecimalSplitAtFirst(s) ==
  LET firstSep == CHOOSE i \in 0..Len(s) :
                    /\ i = 0 \/ s[i] \in {",", "."}
                    /\ \A j \in 1..(i - 1) : s[j] \notin {",", "."}
                    /\ i = 0 => \A j \in 1..Len(s) : s[j] \notin {",", "."}
  IN IF firstSep # 0
     THEN SelectSeq(SubSeq(s, 1, firstSep - 1), NotSeparator) \o <<".">>
          \o SelectSeq(SubSeq(s, firstSep + 1, Len(s)), NotSeparator)
     ELSE SelectSeq(s, DigitOrMinus)

\* lastSep = Math.max(lastComma, lastDot); with one, intPart without
\* separators + '.' + decPart; without one, the digits and minus signs
DecimalSplit(s) ==
  LET lastSep == Max(LastIndexOf(s, ","), LastIndexOf(s, "."))
  IN IF lastSep # 0
     THEN SelectSeq(SubSeq(s, 1, lastSep - 1), NotSeparator) \o <<".">>
          \o SubSeq(s, lastSep + 1, Len(s))
     ELSE SelectSeq(s, DigitOrMinus)

\* the string parseNumericValue hands to parseFloat
CleanNumeric(s) ==
  DecimalSplit(SelectSeq(SelectSeq(StripCurrency(Trim(s)), KeptChar), NotSpaceOrApostrophe))

\* ProcessingController.parseNumericValue(value)
parseNumericValue(value) ==
  IF value.t = "null" THEN Zero
  ELSE IF value.t = "nan" THEN Zero
  ELSE IF value.t = "num" THEN value
  ELSE IF value.s = <<>> THEN Zero
  ELSE LET n == parseFloat(CleanNumeric(value.s))
       IN IF n.t = "num" THEN n ELSE Zero

\* characters of the drawn strings
Chars == {"0", "5", ",", ".", " ", "-", "x"}

RECURSIVE StringsUpTo(_)
StringsUpTo(n) ==
  IF n = 0 THEN {<<>>}
  ELSE LET shorter == StringsUpTo(n - 1)
       IN shorter \cup {Append(s, c) : s \in {x \in shorter : Len(x) = n - 1}, c \in Chars}

\* strings with more characters than the drawn ones
LongStrings ==
  { <<"2", ",", "3", "7", "8", ".", "0", "2">>,
    <<"6", " ", "8", "3", "4", ",", "9", "9">>,
    <<"€", " ", "1", "'", "2", "3", "4", ".", "5">>,
    <<"1", ".", "2", "3", "4", ",", "5", " ", "x">> }

ParseInputs ==
  { [kind |-> "parse", value |-> v] :
      v \in {Null, NaN, Num(25, 1)} \cup {Str(s) : s \in StringsUpTo(MaxChars) \cup LongStrings} }

\* one call of parseNumericValue
ParseNumericValue ==
  /\ fpc = "input"
  /\ fin.kind = "parse"
  /\ fout' = parseNumericValue(fin.value)
  /\ fpc' = "parse"
  /\ UNCHANGED <<fin, batchVars, reconVars, storeVars>>

\* ---- normalizeItemsNumbers

\* JavaScript truthiness of a value
Truthy(v) ==
  \/ v.t = "str" /\ v.s # <<>>
  \/ v.t = "num" /\ v.n # 0

\* a || b
Either(a, b) == IF Truthy(a) THEN a ELSE b

Positive(a) == a.n > 0

\* Faulty variant of Implausible: only the too-large ratio is corrected.
ImplausibleOnlyAbove(up, q, total) ==
  up.n * q.n * Pow10(total.k) > 50 * total.n * Pow10(up.k + q.k)

\* ratio = (up * q) / total; ratio > 50 || ratio < 0.02, for total > 0
\* (!isFinite(ratio) needs a product beyond the range of a double)
Implausible(up, q, total) ==
  \/ up.n * q.n * Pow10(total.k) > 50 * total.n * Pow10(up.k + q.k)
  \/ 50 * up.n * q.n * Pow10(total.k) < total.n * Pow10(up.k + q.k)

\* +(total / q).toFixed(2), for total > 0 and q > 0
QuotientToFixed2(total, q) ==
  LET num == 100 * total.n * Pow10(q.k)
      den == q.n * Pow10(total.k)
  IN Num((2 * num + den) \div (2 * den), 2)

\* the body of normalizeItemsNumbers' map for one item (items carry
\* total_price_ht or line_total, and unit_price; the weights and the discount,
\* parsed in place when present, are left out)
normalizeItem(it) ==
  LET q == parseNumericValue(it.quantity)
      total == parseNumericValue(Either(it.total_price_ht, it.line_total))
      up == parseNumericValue(it.unit_price)
  IN [it EXCEPT !.quantity = q,
                !.total_price_ht = total,
                !.unit_price =
                   IF Positive(q) /\ Positive(total) /\ Positive(up) /\ Implausible(up, q, total)
                   THEN QuotientToFixed2(total, q) ELSE up]

\* ProcessingController.normalizeItemsNumbers(items)
normalizeItemsNumbers(items) == [i \in 1..Len(items) |-> normalizeItem(items[i])]

Item(q, total, lineTotal, up) ==
  [quantity |-> q, total_price_ht |-> total, line_total |-> lineTotal, unit_price |-> up]

Quantities == {Num(0, 0), Num(1, 0), Num(2, 0), Num(3, 0), Num(10, 0), Str(<<"2">>)}
Totals == {Null, Num(0, 0), Num(1, 0), Num(50, 0), Num(100, 0)}
UnitPrices ==
  {Null, Num(1, 2), Num(1, 0), Num(5, 0), Num(25, 0), Num(5000, 0), Str(<<"5", ",", "0">>)}

NormalizeInputs ==
  { [kind |-> "normalize", items |-> <<Item(q, t, Num(3, 0), u)>>] :
      q \in Quantities, t \in Totals, u \in UnitPrices }
  \cup
  { [kind |-> "normalize", items |-> <<>>],
    [kind |-> "normalize",
     items |-> << Item(Num(10, 0), Num(100, 0), Null, Num(5000, 0)),
                  Item(Num(2, 0), Num(50, 0), Null, Num(25, 0)) >>] }

\* one call of normalizeItemsNumbers
NormalizeItemsNumbers ==
  /\ fpc = "input"
  /\ fin.kind = "normalize"
  /\ fout' = normalizeItemsNumbers(fin.items)
  /\ fpc' = "normalize"
  /\ UNCHANGED <<fin, batchVars, reconVars, storeVars>>

\* ---- mapFieldVariations

\* an array value
Arr(a) == [t |-> "arr", a |-> a]

\* !v is false: a non-empty string, a non-zero number, any array
Present(v) == Truthy(v) \/ v.t = "arr"

\* the scalar canonical keys with their alias keys, in the order of the ifs
ScalarPairs ==
  << <<"invoice_id", "invoice_number">>,
     <<"issue_date", "invoice_date">>,
     <<"total_ttc", "total_amount">>,
     <<"exporter_name", "vendor_name">>,
     <<"exporter_street", "vendor_address">>,
     <<"importer_name", "customer_name">>,
     <<"importer_street", "customer_address">> >>

\* Faulty variant of MapPair: the alias is copied whenever it holds a value.
MapPairAlways(d, canon, alias) ==
  IF Present(d[alias]) THEN [d EXCEPT ![canon] = d[alias]] ELSE d

\* if (!mappedData.<canon> && mappedData.<alias>) mappedData.<canon> = mappedData.<alias>
MapPair(d, canon, alias) ==
  IF ~Present(d[canon]) /\ Present(d[alias]) THEN [d EXCEPT ![canon] = d[alias]] ELSE d

RECURSIVE MapScalars(_, _)
MapScalars(d, k) ==
  IF k > Len(ScalarPairs) THEN d
  ELSE MapScalars(MapPair(d, ScalarPairs[k][1], ScalarPairs[k][2]), k + 1)

\* parseInt(v) || 0: the leading integer of the value's string, 0 without one
ParseIntOrZero(v) ==
  IF v.t = "num" THEN Num(v.n \div Pow10(v.k), 0)
  ELSE IF v.t = "str"
  THEN LET s == TrimLeft(v.s)
           negative == s # <<>> /\ Head(s) = "-"
           magnitude == DigitsValue(LeadingDigits(IF negative THEN Tail(s) ELSE s))
       IN Num(IF negative THEN 0 - magnitude ELSE magnitude, 0)
  ELSE Zero

\* the item built from one element of line_items (the keys filled from it)
MapLineItem(item) ==
  [product_name |-> Either(item.description, Str(<<>>)),
   description |-> Either(item.description, Str(<<>>)),
   quantity |-> ParseIntOrZero(item.quantity),
   unit_price |-> parseNumericValue(item.unit_price),
   total_price_ht |-> parseNumericValue(item.line_total)]

\* if (!mappedData.items && mappedData.line_items) mappedData.items = line_items.map(...)
MapItems(d) ==
  IF ~Present(d.items) /\ Present(d.line_items)
  THEN [d EXCEPT !.items =
          Arr([i \in 1..Len(d.line_items.a) |-> MapLineItem(d.line_items.a[i])])]
  ELSE d

\* ProcessingController.mapFieldVariations(extractedData)
mapFieldVariations(extractedData) == MapItems(MapScalars(extractedData, 1))

CanonValues == {Null, Str(<<>>), Zero, Str(<<"C">>)}
AliasValues == {Null, Str(<<>>), Str(<<"A">>)}

RawLineItem(d, q) ==
  [description |-> d, quantity |-> q, unit_price |-> Str(<<"2", ",", "5">>),
   line_total |-> Num(5, 0)]

ItemsValues == {Null, Arr(<<>>), Arr(<<MapLineItem(RawLineItem(Str(<<"C">>), Num(1, 0)))>>)}
LineItemsValues ==
  {Null, Arr(<<RawLineItem(Str(<<"A">>), Str(<<"2">>)), RawLineItem(Null, Num(3, 0))>>)}

\* extractedData with the pair number p holding <<c, a>> and every other
\* scalar pair holding <<c2, a2>>
ExtractedData(p, c, a, c2, a2, items, lineItems) ==
  [k \in {ScalarPairs[i][j] : i \in 1..Len(ScalarPairs), j \in 1..2}
         \cup {"items", "line_items"} |->
     IF k = "items" THEN items
     ELSE IF k = "line_items" THEN lineItems
     ELSE IF k = ScalarPairs[p][1] THEN c
     ELSE IF k = ScalarPairs[p][2] THEN a
     ELSE IF \E i \in 1..Len(ScalarPairs) : k = ScalarPairs[i][1] THEN c2
     ELSE a2]

VariationInputs ==
  { [kind |-> "variations",
     data |-> ExtractedData(p, c, a, c2, a2, items, lineItems)] :
      p \in 1..Len(ScalarPairs), c \in CanonValues, a \in AliasValues,
      c2 \in {Null, Str(<<"C">>)}, a2 \in {Null, Str(<<"B">>)},
      items \in ItemsValues, lineItems \in LineItemsValues }

\* one call of mapFieldVariations
MapFieldVariations ==
  /\ fpc = "input"
  /\ fin.kind = "variations"
  /\ fout' = mapFieldVariations(fin.data)
  /\ fpc' = "variations"
  /\ UNCHANGED <<fin, batchVars, reconVars, storeVars>>

\* ---- normalizeInvoice

\* a + b for numbers n / 10^k
Add(a, b) ==
  IF a.k >= b.k THEN Num(a.n + b.n * Pow10(a.k - b.k), a.k)
  ELSE Num(a.n * Pow10(b.k - a.k) + b.n, b.k)

\* Number(it.totalAmount) || 0
NumberOrZero(v) == IF v.t = "num" THEN v ELSE Zero

\* normalized.lineItems.reduce((acc, it) => acc + (Number(it.totalAmount) || 0), 0)
RECURSIVE SumTotalAmount(_)
SumTotalAmount(items) ==
  IF items = <<>> THEN Zero
  ELSE Add(SumTotalAmount(SubSeq(items, 1, Len(items) - 1)),
           NumberOrZero(items[Len(items)].totalAmount))

\* normalizeInvoice(extract), its amountDue part: with a first totals entry
\* whose amountDue is null/undefined and a lineItems array whose totalAmounts
\* sum to more than 0, the sum (two decimals at most in this model) is stored
\* and flagged.  The date, currency and country rewriting is left out.
normalizeInvoice(extract) ==
  LET totals == extract.totalsAndSubtotals
      sum == SumTotalAmount(extract.lineItems.a)
      computes == /\ Len(totals) > 0
                  /\ totals[1].amountDue.t = "null"
                  /\ extract.lineItems.t = "arr"
                  /\ sum.n > 0
  IN [normalized |->
        [extract EXCEPT !.totalsAndSubtotals =
           IF computes THEN [totals EXCEPT ![1].amountDue = sum] ELSE totals],
      diagnostics |-> [computed |-> [amountDue |-> computes]]]

\* extractFromLayout from the validated reply on: normalizeInvoice(validated)
extractFromLayout(parsed) == normalizeInvoice(parsed)

\* extractFromLayoutChunked from the collected items on: the extract it builds
\* has totalsAndSubtotals: []
extractFromLayoutChunked(allLineItems) ==
  normalizeInvoice([lineItems |-> Arr(allLineItems), totalsAndSubtotals |-> <<>>])

LineItem(total) == [totalAmount |-> total]

LineItemLists ==
  { <<>>,
    <<LineItem(Num(10, 0))>>,
    <<LineItem(Num(10, 0)), LineItem(Num(55, 1))>>,
    <<LineItem(Null), LineItem(Num(125, 2))>>,
    <<LineItem(Num(0, 0))>> }

TotalsLists ==
  { <<>>,
    <<[amountDue |-> Null]>>,
    <<[amountDue |-> Num(7, 0)]>>,
    <<[amountDue |-> Zero]>>,
    <<[amountDue |-> Null], [amountDue |-> Num(7, 0)]>> }

LayoutInputs ==
  { [kind |-> "layout", extract |-> [lineItems |-> li, totalsAndSubtotals |-> ts]] :
      li \in {Null} \cup {Arr(a) : a \in LineItemLists}, ts \in TotalsLists }
  \cup
  { [kind |-> "chunked", items |-> a] : a \in LineItemLists }

\* extractFromLayout's last two statements
ExtractFromLayout ==
  /\ fpc = "input"
  /\ fin.kind = "layout"
  /\ fout' = extractFromLayout(fin.extract)
  /\ fpc' = "layout"
  /\ UNCHANGED <<fin, batchVars, reconVars, storeVars>>

\* extractFromLayoutChunked's last statements
ExtractFromLayoutChunked ==
  /\ fpc = "input"
  /\ fin.kind = "chunked"
  /\ fout' = extractFromLayoutChunked(fin.items)
  /\ fpc' = "chunked"
  /\ UNCHANGED <<fin, batchVars, reconVars, storeVars>>

\* ------------------------------------------------- confirmFromJsonWindows

\* this.maxJsonWindowBytes (MAX_JSON_WINDOW_BYTES), kept small
MaxJsonWindowBytes == 2

\* windows supplied at most
MaxWindows == 4

\* s.slice(0, n)
SliceTo(s, n) == SubSeq(s, 1, Min(Len(s), n))

\* text.includes(value)
Includes(text, value) ==
  \E i \in 0..(Len(text) - Len(value)) : SubSeq(text, i + 1, i + Len(value)) = value

\* Faulty variant of SafeWindows: every supplied window is kept.
SafeWindowsAll(windows) ==
  [k \in 1..Len(windows) |-> SliceTo(windows[k], MaxJsonWindowBytes)]

\* (windows || []).slice(0, 3).map(w => ({ text: (w.text || '').slice(0, this.maxJsonWindowBytes), ... }))
SafeWindows(windows) ==
  [k \in 1..Min(Len(windows), 3) |-> SliceTo(windows[k], MaxJsonWindowBytes)]

\* String(parsed.value) for a string or a one-digit number
StringOf(v) == IF v.t = "str" THEN v.s ELSE <<CHOOSE d \in Digits : DigitVal[d] = v.n>>

\* the value confirmFromJsonWindows returns for a model reply: a reply that
\* JSON.parse refuses is taken as { value: null }; a value that is null or
\* empty, or that no safe window includes, gives null
confirmFromJsonWindows(windows, reply) ==
  LET parsedValue == IF reply.json THEN reply.value ELSE Null
      value == IF parsedValue = Null THEN Null ELSE Str(StringOf(parsedValue))
      safeWindows == SafeWindows(windows)
  IN IF value # Null /\ value.s # <<>>
     THEN IF \E k \in 1..Len(safeWindows) : Includes(safeWindows[k], value.s)
          THEN value
          ELSE Null
     ELSE Null

\* texts of the supplied windows
WindowTexts == { <<>>, <<"a", "b">>, <<"b", "a", "5">>, <<"x">> }

RECURSIVE WindowLists(_)
WindowLists(n) ==
  IF n = 0 THEN {<<>>}
  ELSE LET shorter == WindowLists(n - 1)
       IN shorter \cup {Append(w, t) : w \in {x \in shorter : Len(x) = n - 1}, t \in WindowTexts}

\* replies of the model: content that is not JSON, or an object whose value is
\* null, a string or a number
ConfirmReplies ==
  { [json |-> FALSE, value |-> Null] }
    \cup { [json |-> TRUE, value |-> v] :
             v \in {Null, Num(5, 0), Str(<<>>), Str(<<"a">>), Str(<<"x">>), Str(<<"a", "b">>),
                    Str(<<"b", "a">>), Str(<<"a", "5">>), Str(<<"b", "a", "5">>)} }

ConfirmInputs ==
  { [kind |-> "confirm", windows |-> w, reply |-> r] :
      w \in WindowLists(MaxWindows), r \in ConfirmReplies }

\* one call of confirmFromJsonWindows, from the model's reply on
ConfirmFromJsonWindows ==
  /\ fpc = "input"
  /\ fin.kind = "confirm"
  /\ fout' = [value |-> confirmFromJsonWindows(fin.windows, fin.reply)]
  /\ fpc' = "confirm"
  /\ UNCHANGED <<fin, batchVars, reconVars, storeVars>>

FnInputs ==
  MergeInputs \cup ParseInputs \cup NormalizeInputs \cup VariationInputs \cup LayoutInputs
    \cup ConfirmInputs

FnInit ==
  /\ fin \in FnInputs
  /\ fout = <<>>
  /\ fpc = "input"
  /\ BatchAtRest
  /\ ReconAtRest
  /\ StoreAtRest

FnNext ==
  \/ MergeTiers
  \/ ParseNumericValue
  \/ NormalizeItemsNumbers
  \/ MapFieldVariations
  \/ ExtractFromLayout
  \/ ExtractFromLayoutChunked
  \/ ConfirmFromJsonWindows

SpecFn == FnInit /\ [][FnNext]_vars

\* ------------------------------------------------- extractFromLayout's retries

\* answers of the inference model the environment has ready, one per call
MaxCalls == 4

\* const maxRetries = 2
maxRetries == 2

\* raw.length < 10 is refused
MinResponseLength == 10

\* what one callAzureOpenAI({ system, user }) does: it throws (token limit, rate
\* limit, quota, empty reply, any client error), or returns the trimmed content,
\* len characters long, which JSON.parse and the schema accept (valid) or not
ModelThrows(error) == [threw |-> TRUE, error |-> error, len |-> 0, valid |-> FALSE]
ModelReturns(len, valid) == [threw |-> FALSE, error |-> "none", len |-> len, valid |-> valid]

ModelOutcomes ==
  { ModelThrows("token"), ModelThrows("client") }
    \cup { ModelReturns(len, valid) : len \in {MinResponseLength - 1, MinResponseLength},
                                      valid \in BOOLEAN }

RetryInputs ==
  { [kind |-> "retry", script |-> s] : s \in [1..MaxCalls -> ModelOutcomes] }

\* extractFromLayout's locals before the loop: raw = '{}', attempt = 0
RetryStart ==
  [attempt |-> 0, calls |-> 0, waits |-> <<>>, raw |-> ModelReturns(2, TRUE),
   err |-> <<>>, parsed |-> FALSE, returned |-> FALSE]

\* Faulty variant of TooShort: any returned content is accepted.
TooShortNever(raw) == FALSE

\* if (raw.length < 10) throw new Error('LLM response too short: ' + raw)
TooShort(raw) == raw.len < MinResponseLength

\* one turn of the for loop up to its catch: raw = await callAzureOpenAI(...),
\* the length test and break, or the catch with `if (attempt === maxRetries) throw err`
CallAzureOpenAI ==
  /\ fpc = "rt_call"
  /\ fout.attempt <= maxRetries
  /\ LET o == fin.script[fout.calls + 1]
         called == [fout EXCEPT !.calls = @ + 1]
     IN IF ~o.threw /\ ~TooShort(o)
        THEN /\ fout' = [called EXCEPT !.raw = o]
             /\ fpc' = "rt_parse"
        ELSE /\ fout' = [called EXCEPT
                  !.raw = IF o.threw THEN @ ELSE o,
                  !.err = IF o.threw THEN <<o.error, called.calls>>
                          ELSE <<"too short", called.calls>>]
             /\ fpc' = IF fout.attempt = maxRetries THEN "rt_thrown" ELSE "rt_wait"
  /\ UNCHANGED <<fin, batchVars, reconVars, storeVars>>

\* await new Promise(resolve => setTimeout(resolve, 1000 * (attempt + 1))); attempt++
\* (waits are kept in seconds)
RetryWait ==
  /\ fpc = "rt_wait"
  /\ fout' = [fout EXCEPT !.waits = Append(@, fout.attempt + 1), !.attempt = @ + 1]
  /\ fpc' = "rt_call"
  /\ UNCHANGED <<fin, batchVars, reconVars, storeVars>>

\* JSON.parse(raw) with its cleanup, InvoiceExtractSchema.parse, normalizeInvoice
\* and the return; a reply they refuse throws
ParseAndValidate ==
  /\ fpc = "rt_parse"
  /\ IF fout.raw.valid
     THEN /\ fout' = [fout EXCEPT !.parsed = TRUE, !.returned = TRUE]
          /\ fpc' = "rt_returned"
     ELSE /\ fout' = [fout EXCEPT !.parsed = TRUE, !.err = <<"parse", fout.calls>>]
          /\ fpc' = "rt_thrown"
  /\ UNCHANGED <<fin, batchVars, reconVars, storeVars>>

RetryInit ==
  /\ fin \in RetryInputs
  /\ fout = RetryStart
  /\ fpc = "rt_call"
  /\ BatchAtRest
  /\ ReconAtRest
  /\ StoreAtRest

RetryNext == CallAzureOpenAI \/ RetryWait \/ ParseAndValidate

SpecRetry == RetryInit /\ [][RetryNext]_vars

\* ------------------------------------------------- extractFromLayoutChunked's loop

\* tables of the largest layout
MaxTables == 21

\* const CHUNK_SIZE = 10
CHUNK_SIZE == 10

\* chunks of the largest layout
MaxChunks == (MaxTables + CHUNK_SIZE - 1) \div CHUNK_SIZE

\* what the model call of one chunk leads to: the call throws; the content is
\* not JSON even after the fence cleanup; it is the JSON null (parsed.lineItems
\* then throws into the outer catch); it is an object without a lineItems
\* array; or it is an object with n line items that the schema accepts or not
ChunkOutcomes ==
  { [call |-> "throws", json |-> "none", n |-> 0, ok |-> TRUE],
    [call |-> "ok", json |-> "unparseable", n |-> 0, ok |-> TRUE],
    [call |-> "ok", json |-> "null", n |-> 0, ok |-> TRUE],
    [call |-> "ok", json |-> "object", n |-> 0, ok |-> TRUE],
    [call |-> "ok", json |-> "items", n |-> 1, ok |-> TRUE],
    [call |-> "ok", json |-> "items", n |-> 2, ok |-> TRUE],
    [call |-> "ok", json |-> "items", n |-> 1, ok |-> FALSE] }

\* parsed.lineItems of chunk c: n items, named after the chunk and their place
ParsedLineItems(c, o) == [j \in 1..o.n |-> [id |-> <<c, j>>, ok |-> o.ok]]

ChunkedInputs ==
  { [kind |-> "chunks", tables |-> t, script |-> s] :
      t \in 0..MaxTables, s \in [1..MaxChunks -> ChunkOutcomes] }

\* const allLineItems = []; the loop starts at i = 0
ChunkedStart == [i |-> 0, calls |-> <<>>, allLineItems |-> <<>>, result |-> <<>>]

\* Faulty variant of PushItems: a chunk's items replace those collected so far.
PushItemsReplacing(allLineItems, items) == items

\* allLineItems.push(...parsed.lineItems)
PushItems(allLineItems, items) == allLineItems \o items

\* tables.slice(i, i + CHUNK_SIZE), as the first and last table (from 1) it holds
Slice(i, tables) == [from |-> i + 1, to |-> Min(i + CHUNK_SIZE, tables)]

\* one turn of `for (let i = 0; i < tables.length; i += CHUNK_SIZE)`: the slice,
\* the one callAzureOpenAI of the chunk, JSON.parse with its cleanup, and the push
\* of parsed.lineItems; every failure is caught and the loop continues
ProcessChunk ==
  /\ fpc = "ck_loop"
  /\ fout.i < fin.tables
  /\ LET c == Len(fout.calls) + 1
         o == fin.script[c]
         collects == o.call = "ok" /\ o.json = "items"
     IN fout' = [fout EXCEPT
          !.i = @ + CHUNK_SIZE,
          !.calls = Append(@, Slice(fout.i, fin.tables)),
          !.allLineItems = IF collects THEN PushItems(@, ParsedLineItems(c, o)) ELSE @]
  /\ UNCHANGED <<fpc, fin, batchVars, reconVars, storeVars>>

\* InvoiceExtractSchema.parse(extract) for the collected items: a list with an
\* item the schema refuses throws
SchemaAccepts(items) == \A k \in 1..Len(items) : items[k].ok

\* after the loop: the extract is built, validated, normalized and returned
FinishChunked ==
  /\ fpc = "ck_loop"
  /\ fout.i >= fin.tables
  /\ IF SchemaAccepts(fout.allLineItems)
     THEN /\ fout' = [fout EXCEPT !.result = <<extractFromLayoutChunked(fout.allLineItems)>>]
          /\ fpc' = "ck_returned"
     ELSE /\ fout' = fout
          /\ fpc' = "ck_thrown"
  /\ UNCHANGED <<fin, batchVars, reconVars, storeVars>>

ChunkedInit ==
  /\ fin \in ChunkedInputs
  /\ fout = ChunkedStart
  /\ fpc = "ck_loop"
  /\ BatchAtRest
  /\ ReconAtRest
  /\ StoreAtRest

ChunkedNext == ProcessChunk \/ FinishChunked

SpecChunked == ChunkedInit /\ [][ChunkedNext]_vars

\* ------------------------------------------------- reconciler claims

Pages(s) == [i \in 1..Len(s) |-> <<s[i].startPage, s[i].endPage>>]

\* s tiles [1,n]: first start 1, contiguous, last end n, every start <= end
\* (contiguity with start <= end makes the starts strictly ascending)
IsTiling(s, n) ==
  /\ Len(s) >= 1
  /\ s[1].startPage = 1
  /\ s[Len(s)].endPage = n
  /\ \A i \in 1..Len(s) : s[i].startPage <= s[i].endPage
  /\ \A i \in 1..(Len(s) - 1) : s[i].endPage + 1 = s[i + 1].startPage

\* C1: whatever the candidates, the spans AzureOpenAIService.validateSplits
\* returns tile [1,N]: sorted, first start 1, contiguous, last end N, start <= end.
C1_TilingInvariant ==
  rpc = "openai" => IsTiling(validated, totalPages)

\* C9: reconciling a list that already tiles [1,N] returns it unchanged: same
\* number of spans, same order, same pages, label and confidence.
C9_IdempotentOnTiling ==
  (rpc = "openai" /\ IsTiling(given, totalPages)) =>
     /\ Len(validated) = Len(given)
     /\ \A i \in 1..Len(given) :
          /\ validated[i].startPage = given[i].startPage
          /\ validated[i].endPage = given[i].endPage
          /\ validated[i].id = given[i].id
          /\ validated[i].confidence = given[i].confidence

\* a two-span tiling went through the reconciler
C9_Witness ==
  /\ rpc = "openai"
  /\ IsTiling(given, totalPages)
  /\ Len(given) = 2
  /\ Pages(validated) = Pages(given)

\* the candidate a returned span was built from (ids are the array positions)
CandidateOf(span) == CHOOSE c \in {given[i] : i \in 1..Len(given)} : c.id = span.id

EmittedIds == {validated[k].id : k \in 1..Len(validated)}

\* C10: in the walk a candidate starting at or before the end of the previously
\* emitted span is emitted starting on the page after that span, ending at its own
\* end clamped to at most N and at least its start; trailing uncovered pages extend
\* the last emitted span to N; for N = 5 and [{1,2},{2,4}] the result is [{1,2},{3,5}].
C10_ClampAndAbsorb ==
  (rpc = "openai" /\ Len(given) > 0) =>
     \* a regressing candidate is moved past the previous span and clamped
     /\ \A k \in 2..Len(validated) :
          LET c == CandidateOf(validated[k])
              prev == validated[k - 1]
          IN c.startPage <= prev.endPage =>
               /\ validated[k].startPage = prev.endPage + 1
               /\ validated[k].endPage <= totalPages
               /\ validated[k].endPage >= validated[k].startPage
               /\ k < Len(validated) =>
                    validated[k].endPage =
                      Max(Min(c.endPage, totalPages), validated[k].startPage)
     \* it is dropped only when the spans walked before it already reach page N
     /\ \A i \in 1..Len(given) :
          (given[i].id \notin EmittedIds /\ given[i].startPage <= totalPages) =>
             \E k \in 1..Len(validated) :
                /\ CandidateOf(validated[k]).startPage <= given[i].startPage
                /\ Max(Min(CandidateOf(validated[k]).endPage, totalPages),
                       validated[k].startPage) = totalPages
     \* trailing pages go to the last emitted span, no span is added for them
     /\ validated[Len(validated)].endPage = totalPages
     /\ (\E i \in 1..Len(given) : given[i].startPage <= totalPages) =>
          /\ \A k \in 1..Len(validated) : validated[k].reasoning = "ai"
          /\ LET last == validated[Len(validated)]
             IN last.startPage = IF Len(validated) = 1
                                 THEN Max(CandidateOf(last).startPage, 1)
                                 ELSE Max(CandidateOf(last).startPage,
                                          validated[Len(validated) - 1].endPage + 1)
     \* the worked example
     /\ (totalPages = 5 /\ Pages(given) = << <<1, 2>>, <<2, 4>> >>) =>
          Pages(validated) = << <<1, 2>>, <<3, 5>> >>

\* the worked example was reconciled: second start moved to 3, end extended to 5
C10_Witness ==
  /\ rpc = "openai"
  /\ totalPages = 5
  /\ Pages(given) = << <<1, 2>>, <<2, 4>> >>
  /\ Pages(validated) = << <<1, 2>>, <<3, 5>> >>

\* ------------------------------------------------- lifecycle claims

Terminal == {"ERROR", "DATA_VALIDATION_PENDING"}

LifecycleStep(a, b) ==
  \/ a \in {"UPLOADED", "SPLIT_PROPOSED", "PROCESSING_FAILED"} /\ b = "PROCESSING_SPLIT"
  \/ a = "PROCESSING_SPLIT" /\ b = "SPLIT_PROPOSED"
  \/ a = "SPLIT_PROPOSED" /\ b = "SPLIT_VALIDATED"
  \/ a = "SPLIT_VALIDATED" /\ b = "EXTRACTING_DATA"
  \/ a = "EXTRACTING_DATA" /\ b = "DATA_VALIDATION_PENDING"
  \/ a \notin Terminal /\ b = "ERROR"

\* C2: under any interleaving of requests and pipelines on the batch, every
\* change of the persisted status is one of the lifecycle transitions.
C2_OnlyLifecycleTransitions ==
  [][row'.status # row.status => LifecycleStep(row.status, row'.status)]_vars

\* slots whose pipeline (processDocumentBatch or extractBatchInvoiceData) runs
Pipelines(q) == {r \in Reqs : q[r].pc \in {"pd_run", "pd_store", "pd_catch", "sp_catch",
                                           "eb_call", "eb_store", "eb_catch", "ex_catch"}}

\* C3: startProcessing is accepted only on reading UPLOADED, SPLIT_PROPOSED or
\* PROCESSING_FAILED, validateSplits only on SPLIT_PROPOSED, extractInvoiceData only
\* on SPLIT_VALIDATED; a request its guard rejects starts no pipeline and leaves
\* the status and every stored column as they were.
C3_GuardedEntry ==
  [][\A r \in Reqs :
       /\ (req[r].pc # "sp_update" /\ req'[r].pc = "sp_update") =>
            /\ row.status \in {"UPLOADED", "SPLIT_PROPOSED", "PROCESSING_FAILED"}
            /\ req'[r].seen = row.status
       /\ (req[r].pc # "vs_split" /\ req'[r].pc = "vs_split") =>
            /\ row.status = "SPLIT_PROPOSED"
            /\ req'[r].seen = row.status
       /\ (req[r].pc # "ex_update" /\ req'[r].pc = "ex_update") =>
            /\ row.status = "SPLIT_VALIDATED"
            /\ req'[r].seen = row.status
       /\ (req[r].pc = "sp_update" /\ req'[r].pc # "sp_update") =>
            req[r].seen \in {"UPLOADED", "SPLIT_PROPOSED", "PROCESSING_FAILED"}
       /\ (req[r].pc = "ex_update" /\ req'[r].pc # "ex_update") =>
            req[r].seen = "SPLIT_VALIDATED"
       /\ (req'[r].pc = "rejected" /\ req'[r] # req[r]) =>
            /\ row' = row
            /\ Pipelines(req') = Pipelines(req)
            /\ \A q \in Reqs \ {r} : req'[q] = req[q]
    ]_vars

\* a startProcessing request was turned down on a batch that is being extracted,
\* while the extraction it would have disturbed goes on
C3_Witness ==
  \E r, q \in Reqs :
     /\ req[r].pc = "rejected" /\ req[r].kind = "start"
     /\ req[q].pc = "eb_call"
     /\ row.status = "EXTRACTING_DATA"

\* C4: once the persisted status is ERROR or DATA_VALIDATION_PENDING no request
\* and no pipeline step changes it again.
C4_TerminalStaysTerminal ==
  [][row.status \in Terminal => row'.status = row.status]_vars

\* C5: a sub-document's extraction failure, returned or thrown, is recorded for
\* that sub-document alone (confidence 0 and the error), the remaining splits are
\* still processed, and the batch ends in DATA_VALIDATION_PENDING, not ERROR.
C5_FailureIsolated ==
  [][\A r \in Reqs : req[r].pc = "eb_call" /\ req'[r] # req[r] =>
       /\ req'[r].pc \in {"eb_call", "eb_store"}
       /\ Len(req'[r].invoices) = Len(req[r].invoices) + 1
       /\ req'[r].pc = "eb_store" <=> Len(req'[r].invoices) = Len(req[r].vs)
    ]_vars

\* C6: when splitPDF fails during validateSplits the persisted status becomes ERROR.
C6_SplitFailureMarksError ==
  [][\A r \in Reqs : (req[r].pc = "vs_split" /\ req'[r].pc = "failed") =>
       row'.status = "ERROR"]_vars

\* C6 as amended: when splitPDF fails during validateSplits the request is
\* answered with the failure and the row, its status included, is left as it was.
C6_SplitFailureLeavesRow ==
  [][\A r \in Reqs : (req[r].pc = "vs_split" /\ req'[r].pc = "failed") =>
       row' = row]_vars

\* a validateSplits request ended in a failed split and the batch is still proposed
C6_Witness ==
  \E r \in Reqs :
     /\ req[r].pc = "failed" /\ req[r].kind = "validate"
     /\ row.status = "SPLIT_PROPOSED"

\* C7: a failure of the layout text extraction or of the oracle call during a run
\* reaches the pipeline as a {success: false, error} result, not as an exception;
\* the pipeline then stores ERROR with the failure message in error_message, and the
\* run never touches proposed_splits.
C7_EarlyFailureMarksError ==
  [][\A r \in Reqs :
       /\ (req'[r].pc = "pd_catch" /\ req'[r].err # <<"init">>) =>
            /\ ~req'[r].res.threw
            /\ ~req'[r].res.success
            /\ req'[r].err \in {<<"Text extraction failed", req'[r].res.error>>,
                                <<"Boundary detection failed", req'[r].res.error>>}
       /\ req'[r].pc = "pd_store" => req'[r].res.success
       /\ (req[r].pc = "pd_catch" /\ req'[r] # req[r]) =>
            /\ req'[r].pc = "sp_catch"
            /\ row'.status = "ERROR"
            /\ row'.error_message = req[r].err
            /\ row'.proposed_splits = row.proposed_splits
       /\ (req[r].pc \in {"sp_update", "pd_run", "sp_catch"} /\ req'[r] # req[r]) =>
            row'.proposed_splits = row.proposed_splits
    ]_vars

\* a run whose text extraction failed has stored ERROR and the message
C7_Witness ==
  \E r \in Reqs :
     /\ req[r].pc = "sp_catch"
     /\ req[r].err = <<"Text extraction failed", "layout">>
     /\ row.status = "ERROR"
     /\ row.error_message = <<"Text extraction failed", "layout">>

\* a list holding the one span 1..n with confidence 0.3
IsLowConfidenceWhole(s, n) ==
  /\ Len(s) = 1
  /\ s[1].startPage = 1
  /\ s[1].endPage = n
  /\ s[1].confidence = FallbackConfidence

\* C8: when the oracle's reply holds no parseable JSON array the detection still
\* succeeds with exactly one span 1..N of confidence 0.3, and the run stores it
\* with status SPLIT_PROPOSED instead of going to ERROR.
C8_UnparseableReplyFallsBack ==
  [][\A r \in Reqs :
       /\ (req'[r].reply.received /\ ~req'[r].reply.json) =>
            /\ req'[r].pc = "pd_store"
            /\ req'[r].res.success
            /\ IsLowConfidenceWhole(req'[r].res.splits, DocPages)
       /\ (req[r].pc = "pd_store" /\ req'[r] # req[r]) =>
            /\ row'.status = "SPLIT_PROPOSED"
            /\ row'.proposed_splits = req[r].res.splits
    ]_vars

\* the fallback span of an unparseable reply is what the batch proposes
C8_Witness ==
  /\ row.status = "SPLIT_PROPOSED"
  /\ IsLowConfidenceWhole(row.proposed_splits, DocPages)
  /\ row.proposed_splits[1].reasoning = "fallback_parse"

\* ------------------------------------------------- empty candidate list

\* C11: for an empty candidate list and any N >= 1, AzureOpenAIService.validateSplits
\* returns exactly one span, with startPage 1, endPage N, confidence 0.3 and
\* the no-splits-detected rationale.
C11_EmptyListGivesWholeSpan ==
  (rpc = "openai" /\ Len(given) = 0) =>
     /\ Len(validated) = 1
     /\ validated[1].startPage = 1
     /\ validated[1].endPage = totalPages
     /\ validated[1].confidence = FallbackConfidence
     /\ validated[1].reasoning = "no_splits"
     /\ validated[1].pageRange = <<1, totalPages>>

C11_Witness ==
  /\ rpc = "openai"
  /\ Len(given) = 0
  /\ totalPages = 3
  /\ Len(validated) = 1

\* ------------------------------------------------- sequential extraction

\* the records pushed so far belong, in order, to the first splits of vs
RecordsFollow(invoices, vs) ==
  /\ Len(invoices) <= Len(vs)
  /\ \A k \in 1..Len(invoices) : invoices[k].splitId = vs[k].id

\* C12: extractBatchInvoiceData takes the validated splits of its batch instance
\* one at a time in array order: while the call for split i is outstanding the
\* calls for splits 1..i-1 have returned and left exactly their records, in
\* order; and the write of DATA_VALIDATION_PENDING stores one record per
\* validated split, in the same order, and a confidence score for every split id.
C12_SequentialExtraction ==
  /\ [](\A r \in Reqs :
          req[r].pc = "eb_call" =>
            /\ req[r].i \in 1..Len(req[r].vs)
            /\ Len(req[r].invoices) = req[r].i - 1
            /\ RecordsFollow(req[r].invoices, req[r].vs))
  /\ [][\A r \in Reqs :
          (req[r].pc = "eb_store" /\ req'[r].pc # "eb_store") =>
            /\ row'.status = "DATA_VALIDATION_PENDING"
            /\ Len(row'.extracted_data) = Len(req[r].vs)
            /\ RecordsFollow(row'.extracted_data, req[r].vs)
            /\ \A k \in 1..Len(req[r].vs) :
                 req[r].vs[k].id \in DOMAIN row'.confidence_scores]_vars

C12_Witness ==
  /\ row.status = "DATA_VALIDATION_PENDING"
  /\ Len(row.validated_splits) = 2
  /\ Len(row.extracted_data) = 2
  /\ row.extracted_data[1].confidence = 0
  /\ row.extracted_data[2].confidence > 0
  /\ DOMAIN row.confidence_scores = {row.validated_splits[k].id : k \in 1..2}

\* ------------------------------------------------- pipelines run to an end

\* C13: when every awaited call returns or throws and store writes succeed, a
\* batch in PROCESSING_SPLIT eventually reaches SPLIT_PROPOSED or ERROR and a
\* batch in EXTRACTING_DATA eventually reaches DATA_VALIDATION_PENDING or ERROR.
C13_PipelinesEnd ==
  /\ (row.status = "PROCESSING_SPLIT") ~> (row.status \in {"SPLIT_PROPOSED", "ERROR"})
  /\ (row.status = "EXTRACTING_DATA") ~> (row.status \in {"DATA_VALIDATION_PENDING", "ERROR"})

C13_Witness ==
  /\ row.status = "EXTRACTING_DATA"
  /\ \E r \in Reqs : req[r].pc = "eb_call" /\ req[r].i = 2
  /\ \A r \in Reqs : req[r].pc \in {"idle", "rejected", "invalid", "failed", "eb_call"}

\* ------------------------------------------------- batches do not interfere

\* C14: under every interleaving of jobs working on distinct batches, a step
\* of the job holding batch A leaves every other batch's row (status, splits,
\* extraction, confidence and error columns) and every other job's result
\* arrays unchanged.
C14_BatchesIsolated ==
  [][\A j \in Jobs :
       job'[j] # job[j] =>
         /\ \A b \in BatchIds : b # job'[j].batch => table'[b] = table[b]
         /\ \A k \in Jobs : k # j => job'[k] = job[k]]_vars

C14_Witness ==
  /\ job[1].batch = 1
  /\ job[2].batch = 2
  /\ table[1] # NoRow
  /\ table[2] # NoRow
  /\ table[1].status = "DATA_VALIDATION_PENDING"
  /\ Len(table[1].extracted_data) = 1
  /\ table[2].status = "ERROR"
  /\ table[2].extracted_data = <<>>

\* ------------------------------------------------- tier precedence

NumEq(a, b) == a.n * Pow10(b.k) = b.n * Pow10(a.k)

IsNumberChar(c) == c \in Digits \cup {",", ".", "-"}
IsDigit(c) == c \in Digits

\* The reading of a string the claim describes: among its digits, separators
\* and minus signs, the digits after the last separator are the decimals and
\* all digits before it the integer part.
ReadAsDecimal(s) ==
  LET cleaned == SelectSeq(s, IsNumberChar)
      seps == {i \in 1..Len(cleaned) : cleaned[i] \in {",", "."}}
      last == IF seps = {} THEN Len(cleaned) + 1
              ELSE CHOOSE i \in seps : \A j \in seps : j <= i
      intDigits == SelectSeq(SubSeq(cleaned, 1, last - 1), IsDigit)
      fracDigits == SelectSeq(SubSeq(cleaned, last + 1, Len(cleaned)), IsDigit)
      magnitude == DigitsValue(intDigits \o fracDigits)
  IN Num(IF cleaned # <<>> /\ cleaned[1] = "-" THEN 0 - magnitude ELSE magnitude,
         Len(fracDigits))

\* a string holding at least one digit and no minus sign except in front
IsPlainNumber(s) ==
  LET cleaned == SelectSeq(s, IsNumberChar)
  IN /\ \E i \in 1..Len(cleaned) : cleaned[i] \in Digits
     /\ \A i \in 2..Len(cleaned) : cleaned[i] # "-"

HasNoDigit(s) == \A i \in 1..Len(s) : s[i] \notin Digits

\* C19: parseNumericValue takes the last ',' or '.' of the cleaned string as
\* the decimal separator and drops the earlier ones (currency tokens, spaces
\* and apostrophes removed), so "2,378.02" gives 2378.02 and "6 834,99" gives
\* 6834.99; null, empty and unparseable input give 0; every input gives a number.
C19_LastSeparatorIsDecimal ==
  fpc = "parse" =>
    /\ fout.t = "num"
    /\ fin.value.t \in {"null", "nan"} => fout = Zero
    /\ (fin.value.t = "str" /\ HasNoDigit(fin.value.s)) => fout = Zero
    /\ (fin.value.t = "str" /\ IsPlainNumber(fin.value.s)) =>
          NumEq(fout, ReadAsDecimal(fin.value.s))
    /\ fin.value = Str(<<"2", ",", "3", "7", "8", ".", "0", "2">>) => fout = Num(237802, 2)
    /\ fin.value = Str(<<"6", " ", "8", "3", "4", ",", "9", "9">>) => fout = Num(683499, 2)

C19_Witness ==
  /\ fpc = "parse"
  /\ fin.value = Str(<<"2", ",", "3", "7", "8", ".", "0", "2">>)
  /\ fout = Num(237802, 2)

\* ------------------------------------------------- unit price guardrail

\* u * q > c * t, for numbers n / 10^k and an integer c
ProductAbove(u, q, c, t) == u.n * q.n * Pow10(t.k) > c * t.n * Pow10(u.k + q.k)

\* r, a number with two decimals, is t / q rounded to two decimals: r * q is
\* within q / 200 of t
IsRoundedQuotient(r, t, q) ==
  LET diff == 200 * (r.n * q.n * Pow10(t.k) - t.n * Pow10(r.k + q.k))
      half == q.n * Pow10(r.k + t.k)
  IN r.k = 2 /\ diff <= half /\ 0 - diff <= half

\* C17: normalizeItemsNumbers overwrites the unit price with totalAmount /
\* quantity rounded to 2 decimals exactly when quantity, totalAmount and
\* unitPrice are positive and (unitPrice x quantity) / totalAmount is above 50
\* or below 0.02; otherwise the parsed unit price is kept; quantity and
\* totalAmount are the parsed ones in every case; {10, 100, 5000} gives 10 and
\* {2, 50, 25} keeps 25.
C17_UnitPriceGuardrail ==
  fpc = "normalize" =>
    /\ Len(fout) = Len(fin.items)
    /\ \A i \in 1..Len(fin.items) :
         LET q == parseNumericValue(fin.items[i].quantity)
             t == parseNumericValue(IF Truthy(fin.items[i].total_price_ht)
                                    THEN fin.items[i].total_price_ht
                                    ELSE fin.items[i].line_total)
             u == parseNumericValue(fin.items[i].unit_price)
             off == /\ q.n > 0 /\ t.n > 0 /\ u.n > 0
                    /\ \/ ProductAbove(u, q, 50, t)                   \* ratio > 50
                       \/ ProductAbove(t, Num(1, 0), 50, Num(u.n * q.n, u.k + q.k)) \* ratio < 0.02
         IN /\ fout[i].quantity = q
            /\ fout[i].total_price_ht = t
            /\ off => IsRoundedQuotient(fout[i].unit_price, t, q)
            /\ ~off => fout[i].unit_price = u
    /\ fin.items = <<Item(Num(10, 0), Num(100, 0), Null, Num(5000, 0)),
                     Item(Num(2, 0), Num(50, 0), Null, Num(25, 0))>>
         => /\ NumEq(fout[1].unit_price, Num(10, 0))
            /\ fout[2].unit_price = Num(25, 0)

C17_Witness ==
  /\ fpc = "normalize"
  /\ Len(fin.items) = 2
  /\ fin.items[1].unit_price = Num(5000, 0)
  /\ fout[1].unit_price = Num(1000, 2)
  /\ fout[2].unit_price = Num(25, 0)

\* ------------------------------------------------- aliases never overwrite

\* every canonical key with its alias key
AliasPairs ==
  {<<ScalarPairs[i][1], ScalarPairs[i][2]>> : i \in 1..Len(ScalarPairs)}
  \cup {<<"items", "line_items">>}

\* a value counts as empty when it is missing, the empty string or zero
IsEmptyField(v) == v.t = "null" \/ (v.t = "str" /\ v.s = <<>>) \/ (v.t = "num" /\ v.n = 0)

\* C16: mapFieldVariations puts the alias key's value on the canonical key
\* only when the canonical key is still empty; a canonical key holding a value
\* keeps exactly that value whatever the alias holds; for the scalar keys the
\* value put there is the alias's, for items it is the list rebuilt from
\* line_items element by element; no other key changes.
C16_AliasesNeverOverwrite ==
  fpc = "variations" =>
    /\ DOMAIN fout = DOMAIN fin.data
    /\ \A pair \in AliasPairs :
         LET canon == pair[1]
             alias == pair[2]
         IN /\ fout[alias] = fin.data[alias]
            /\ fout[canon] # fin.data[canon] => IsEmptyField(fin.data[canon])
            /\ ~IsEmptyField(fin.data[canon]) => fout[canon] = fin.data[canon]
            /\ (canon # "items" /\ IsEmptyField(fin.data[canon])
                  /\ ~IsEmptyField(fin.data[alias])) => fout[canon] = fin.data[alias]
            /\ (canon = "items" /\ IsEmptyField(fin.data[canon])
                  /\ fin.data[alias].t = "arr") =>
                  /\ fout[canon].t = "arr"
                  /\ Len(fout[canon].a) = Len(fin.data[alias].a)
                  /\ \A i \in 1..Len(fout[canon].a) :
                       fin.data[alias].a[i].description.t = "str" =>
                         fout[canon].a[i].description = fin.data[alias].a[i].description

C16_Witness ==
  /\ fpc = "variations"
  /\ fin.data["invoice_id"] = Str(<<"C">>)
  /\ fin.data["invoice_number"] = Str(<<"A">>)
  /\ fout["invoice_id"] = Str(<<"C">>)
  /\ fin.data["issue_date"] = Null
  /\ fin.data["invoice_date"] = Str(<<"B">>)
  /\ fout["issue_date"] = Str(<<"B">>)
  /\ fin.data["items"] = Null
  /\ fout["items"].t = "arr"

\* ------------------------------------------------- derived amountDue

\* the extract normalizeInvoice was given
GivenExtract ==
  IF fpc = "chunked" THEN [lineItems |-> Arr(fin.items), totalsAndSubtotals |-> <<>>]
  ELSE fin.extract

HasLineItems(e) == e.lineItems.t = "arr" /\ Len(e.lineItems.a) > 0

AmountDueAbsent(e) ==
  Len(e.totalsAndSubtotals) = 0 \/ e.totalsAndSubtotals[1].amountDue.t = "null"

\* C18: after normalizeInvoice, a record with line items whose amountDue was
\* absent has amountDue equal to the sum of the items' totalAmount, flagged as
\* computed; an amountDue that was present is neither replaced nor flagged;
\* for records of extractFromLayout and of extractFromLayoutChunked alike.
C18_AmountDueDerived ==
  fpc \in {"layout", "chunked"} =>
    LET e == GivenExtract
        out == fout.normalized.totalsAndSubtotals
    IN /\ (HasLineItems(e) /\ AmountDueAbsent(e)) =>
            /\ Len(out) > 0
            /\ out[1].amountDue.t = "num"
            /\ NumEq(out[1].amountDue, SumTotalAmount(e.lineItems.a))
            /\ fout.diagnostics.computed.amountDue
       /\ ~AmountDueAbsent(e) =>
            /\ out[1].amountDue = e.totalsAndSubtotals[1].amountDue
            /\ ~fout.diagnostics.computed.amountDue

\* ------------------------------------------------- shape of reconciled spans

\* spans s are ordered, disjoint, inside [1,n], end at n and carry their own
\* pages as pageRange
WellFormedSpans(s, n) ==
  /\ Len(s) >= 1
  /\ \A i \in 1..(Len(s) - 1) :
        /\ s[i].startPage < s[i + 1].startPage
        /\ s[i + 1].startPage > s[i].endPage
  /\ \A i \in 1..Len(s) :
        /\ 1 <= s[i].startPage
        /\ s[i].startPage <= s[i].endPage
        /\ s[i].endPage <= n
        /\ s[i].pageRange = <<s[i].startPage, s[i].endPage>>
  /\ s[Len(s)].endPage = n

\* C20: for every candidate list and N >= 1, the spans returned by either
\* reconciler (AzureOpenAIService.validateSplits, PDFSplitterService.validateSplits)
\* are non-empty, strictly ascending by startPage, pairwise non-overlapping,
\* satisfy 1 <= startPage <= endPage <= N, the last span ends at N, and each
\* span's pageRange equals its startPage and endPage.
C20_SpansWellFormed ==
  rpc \in {"openai", "splitter"} => WellFormedSpans(validated, totalPages)

\* two overlapping, out-of-order candidates, one running past the last page,
\* have been reconciled into two spans
C20_Witness ==
  /\ rpc \in {"openai", "splitter"}
  /\ totalPages = 4
  /\ Len(given) = 2
  /\ given[1].startPage = 2 /\ given[1].endPage = 5
  /\ given[2].startPage = 1 /\ given[2].endPage = 2
  /\ Len(validated) = 2

\* ------------------------------------------------- one detection pipeline at a time

\* slots whose processDocumentBatch call has been started and has not yet
\* stored its outcome
DetectionInFlight == {r \in Reqs : req[r].pc \in {"pd_run", "pd_store", "pd_catch"}}

\* C21: for one batch at most one boundary-detection pipeline
\* (processDocumentBatch) is in flight at any time, even when several
\* startProcessing requests interleave at their awaits.
C21_OneDetectionPipeline ==
  Cardinality(DetectionInFlight) <= 1

\* ------------------------------------------------- retries of the model call

\* the k-th prepared answer is a failed attempt: the call throws or its content
\* is shorter than 10 characters
AttemptFails(k) == fin.script[k].threw \/ fin.script[k].len < 10

\* the error the k-th failed attempt raises
AttemptError(k) ==
  IF fin.script[k].threw THEN <<fin.script[k].error, k>> ELSE <<"too short", k>>

\* C22: extractFromLayout calls the model at most 3 times per invocation; it
\* stops retrying at the first attempt returning at least 10 characters, waits
\* between failed attempts, and after the third failed attempt propagates that
\* attempt's error without parsing or returning any extract.
C22_AtMostThreeAttempts ==
  fpc \in {"rt_call", "rt_wait", "rt_parse", "rt_returned", "rt_thrown"} =>
    /\ fout.calls <= 3
    /\ \A k \in 1..(fout.calls - 1) : AttemptFails(k)
    /\ fpc \in {"rt_parse", "rt_returned"} \/ fout.parsed =>
         /\ ~AttemptFails(fout.calls)
         /\ fout.raw = fin.script[fout.calls]
    /\ Len(fout.waits) = (IF fpc = "rt_call" THEN fout.calls ELSE fout.calls - 1)
    /\ \A k \in 1..Len(fout.waits) : fout.waits[k] > 0
    /\ (fout.calls = 3 /\ AttemptFails(3) /\ fpc # "rt_call") =>
         /\ fpc = "rt_thrown"
         /\ fout.err = AttemptError(3)
         /\ ~fout.parsed
         /\ ~fout.returned

\* three failed attempts (a thrown call, a short reply, a thrown call) although
\* a fourth answer would have been acceptable
C22_Witness ==
  /\ fpc = "rt_thrown"
  /\ fout.calls = 3
  /\ fin.script[1].threw
  /\ ~fin.script[2].threw /\ fin.script[2].len < 10
  /\ fin.script[3].threw
  /\ ~fin.script[4].threw /\ fin.script[4].len >= 10
  /\ Len(fout.waits) = 2

\* ------------------------------------------------- chunked extraction

\* the chunk with the prepared answer o succeeded: its call returned and its
\* reply was parsed
ChunkSucceeded(o) == o.call = "ok" /\ o.json \in {"object", "items"}

\* the items of chunks c..last that succeeded, in chunk order
RECURSIVE ItemsOfChunks(_, _)
ItemsOfChunks(c, last) ==
  IF c > last THEN <<>>
  ELSE (IF ChunkSucceeded(fin.script[c])
        THEN [j \in 1..fin.script[c].n |-> [id |-> <<c, j>>, ok |-> fin.script[c].ok]]
        ELSE <<>>)
       \o ItemsOfChunks(c + 1, last)

\* C23: extractFromLayoutChunked takes the tables in consecutive chunks of at
\* most 10 with one model call per chunk; a chunk whose call fails or whose
\* reply cannot be parsed contributes no items and does not stop later chunks;
\* the resulting lineItems are the concatenation, in chunk order, of the items
\* of the chunks that succeeded; with zero tables no model call is made.
C23_ChunksConcatenated ==
  fpc \in {"ck_loop", "ck_returned", "ck_thrown"} =>
    LET calls == fout.calls
    IN /\ \A c \in 1..Len(calls) :
            /\ calls[c].from = 10 * (c - 1) + 1
            /\ calls[c].to >= calls[c].from
            /\ calls[c].to - calls[c].from < 10
            /\ calls[c].to = (IF c < Len(calls) THEN calls[c + 1].from - 1
                              ELSE calls[c].to)
       /\ fout.allLineItems = ItemsOfChunks(1, Len(calls))
       /\ fpc \in {"ck_returned", "ck_thrown"} =>
            /\ Len(calls) = (fin.tables + 9) \div 10
            /\ fin.tables > 0 => calls[Len(calls)].to = fin.tables
       /\ fpc = "ck_returned" =>
            fout.result[1].normalized.lineItems = Arr(ItemsOfChunks(1, Len(calls)))
       /\ fin.tables = 0 => Len(calls) = 0

\* 21 tables in three chunks: the first call throws, the second reply is not
\* JSON, the third gives two items, which are the whole result
C23_Witness ==
  /\ fpc = "ck_returned"
  /\ fin.tables = 21
  /\ Len(fout.calls) = 3
  /\ fin.script[1].call = "throws"
  /\ fin.script[2].json = "unparseable"
  /\ fin.script[3].n = 2
  /\ Len(fout.result[1].normalized.lineItems.a) = 2

\* ------------------------------------------------- confirm-only extraction

\* the string s occurs in the text of one of the first three supplied windows,
\* each cut to the configured size
OccursInFirstThree(s) ==
  \E k \in 1..Len(fin.windows) :
     /\ k <= 3
     /\ LET text == SubSeq(fin.windows[k], 1, Min(Len(fin.windows[k]), MaxJsonWindowBytes))
        IN \E i \in 1..Len(text), j \in 1..Len(text) : SubSeq(text, i, j) = s

\* C24: confirmFromJsonWindows returns a non-null value only if that exact
\* string occurs in the text of one of the first three supplied windows, each
\* truncated to the configured maximum size; for any other model reply,
\* including one that is not JSON, the returned value is null.
C24_OnlyVerbatimValues ==
  fpc = "confirm" =>
    /\ fout.value # Null =>
         /\ fout.value.t = "str"
         /\ OccursInFirstThree(fout.value.s)
         /\ fin.reply.json
         /\ fin.reply.value # Null
         /\ fin.reply.value.t = "str" => fout.value = fin.reply.value
    /\ ~fin.reply.json => fout.value = Null
    /\ (fin.reply.value.t = "str" /\ ~OccursInFirstThree(fin.reply.value.s)) =>
         fout.value = Null

\* four windows are supplied, the first is cut to its first two characters,
\* and the model answers with exactly those two: they are returned
C24_Witness ==
  /\ fpc = "confirm"
  /\ Len(fin.windows) = 4
  /\ fin.windows[1] = <<"b", "a", "5">>
  /\ fin.reply.json
  /\ fin.reply.value = Str(<<"b", "a">>)
  /\ fout.value = Str(<<"b", "a">>)

\* ------------------------------------------------- the two reconcilers agree

\* C25: for every non-empty candidate list and every N >= 1,
\* AzureOpenAIService.validateSplits and PDFSplitterService.validateSplits
\* return the same number of spans with the same startPage and endPage in the
\* same order.
C25_ReconcilersAgree ==
  Len(given) > 0 =>
    /\ rpc = "openai" =>
         Pages(validated) = Pages(splitterValidateSplits(given, totalPages))
    /\ rpc = "splitter" =>
         Pages(validated) = Pages(validateSplits(given, totalPages))

\* the proposal reconciler has clamped a candidate starting before its
\* predecessor's end and stretched the last span over the remaining pages, and
\* the splitter's reconciler gives the same two spans
C25_Witness ==
  /\ rpc = "openai"
  /\ totalPages = 5
  /\ Len(given) = 2
  /\ given[1].startPage = 1 /\ given[1].endPage = 3
  /\ given[2].startPage = 2 /\ given[2].endPage = 4
  /\ Pages(validated) = << <<1, 3>>, <<4, 5>> >>
  /\ Pages(splitterValidateSplits(given, totalPages)) = << <<1, 3>>, <<4, 5>> >>

\* ------------------------------------------------- validated splits are there

\* C26: in every reachable state in which the batch's status is SPLIT_VALIDATED
\* or EXTRACTING_DATA, its validated_splits column holds a non-empty list of
\* spans, so batch extraction never aborts with 'No validated splits found'.
C26_ValidatedSplitsPresent ==
  /\ row.status \in {"SPLIT_VALIDATED", "EXTRACTING_DATA"} =>
       Len(row.validated_splits) > 0
  /\ \A r \in Reqs :
       /\ req[r].err # <<"No validated splits found">>
       /\ req[r].pc \in {"ex_update", "eb_call"} => Len(req[r].vs) > 0

\* batch extraction is at work on the two validated spans of the batch
C26_Witness ==
  /\ row.status = "EXTRACTING_DATA"
  /\ Len(row.validated_splits) = 2
  /\ \E r \in Reqs : req[r].pc = "eb_call" /\ req[r].vs = row.validated_splits

\* ------------------------------------------------- split-only mode

\* C27: with SPLIT_ONLY enabled no sequence of requests brings the batch to
\* EXTRACTING_DATA or DATA_VALIDATION_PENDING: extractInvoiceData is refused
\* before reading or changing the batch, and a processing run stops after
\* storing the split proposal.
C27_SplitOnlyNeverExtracts ==
  /\ [](splitOnly =>
          /\ row.status \notin {"EXTRACTING_DATA", "DATA_VALIDATION_PENDING"}
          /\ row.extracted_data = <<>>
          /\ \A r \in Reqs :
               req[r].pc \notin {"ex_update", "eb_call", "eb_store", "eb_catch", "ex_catch"})
  /\ [][splitOnly =>
          \A r \in Reqs :
            /\ (req'[r] # req[r] /\ req'[r].kind = "extract") =>
                 /\ req'[r] = Answered("extract", "invalid")
                 /\ row' = row
            /\ (req[r].pc = "pd_store" /\ req'[r] # req[r]) =>
                 /\ row'.status = "SPLIT_PROPOSED"
                 /\ req'[r] = Idle]_vars

\* with SPLIT_ONLY enabled an extractInvoiceData request on a SPLIT_VALIDATED
\* batch has been refused
C27_Witness ==
  /\ splitOnly
  /\ row.status = "SPLIT_VALIDATED"
  /\ \E r \in Reqs : req[r] = Answered("extract", "invalid")

\* ------------------------------------------------- updateSplits

\* the columns of the row other than proposed_splits
OtherColumns == {"status", "validated_splits", "extracted_data", "confidence_scores",
                 "error_message"}

\* C28: updateSplits is accepted in any batch status and replaces only the
\* proposed_splits column: status, validated_splits, extracted_data,
\* confidence_scores and error_message are unchanged by it; a request whose
\* splits value is not an array, or has an element lacking startPage or
\* endPage, changes nothing at all.
C28_UpdateSplitsFrame ==
  [][\A r \in Reqs :
       /\ (req[r].pc = "us_update" /\ req'[r] # req[r]) =>
            /\ row'.proposed_splits = req[r].body.items
            /\ \A c \in OtherColumns : row'[c] = row[c]
       /\ (req'[r] # req[r] /\ req'[r].kind = "update") =>
            /\ row' = row
            /\ req'[r].pc \in {"us_update", "invalid"}
            /\ req'[r].pc = "us_update" =>
                 /\ req'[r].body.isArray
                 /\ \A k \in 1..Len(req'[r].body.items) :
                      /\ req'[r].body.items[k].startPage # 0
                      /\ req'[r].body.items[k].endPage # 0
    ]_vars

\* updateSplits has stored a client's span on a batch that was never
\* processed: the batch is still UPLOADED and its other columns are empty
C28_Witness ==
  /\ row.status = "UPLOADED"
  /\ row.proposed_splits = <<UserSpan(1, 1)>>
  /\ row.validated_splits = <<>>
  /\ row.error_message = <<>>

\* ------------------------------------------------- deleted batches stay deleted

\* C29: after deleteBatch has removed a batch's row no later step of a
\* pipeline still running for that batch re-creates it: every later lookup of
\* the id finds nothing and the pipeline's remaining writes do not change the
\* store.
C29_DeletedStaysDeleted ==
  [][\A b \in BatchIds :
       table[b] = NoRow =>
         /\ table'[b] = NoRow
         /\ \A j \in Jobs :
              /\ (job[j].batch = 0 /\ job'[j] # job[j]) =>
                   (job'[j].batch # b /\ (job'[j].batch = 0 => job'[j].notFound))
              /\ (job[j].batch = b /\ job'[j] # job[j]) => table' = table
    ]_vars

\* the second job has deleted batch 1 while the first, a pipeline that has
\* pushed a result, held an instance of it; the pipeline's one write then
\* matched no row, and the row is still gone
C29_Witness ==
  /\ table[1] = NoRow
  /\ job[2].batch = 1 /\ job[2].n = 2 /\ job[2].changed
  /\ job[1].batch = 1 /\ job[1].n = 3 /\ ~job[1].changed
  /\ Len(job[1].invoices) = 1

====
